---- MODULE Spec2Model ----
(***************************************************************************)
(* State-machine model of the NESPRESSO NES emulator (src/src): the memory *)
(* bus (memory/bus.c), the 6502 core (cpu/cpu.c), the PPU (ppu/ppu.c), the *)
(* controller ports (input/input.c), the cartridge and its mappers         *)
(* (cartridge/rom.c, mapper/mapper.c) and the frame counter of the APU     *)
(* (apu/apu.c).                                                            *)
(*                                                                         *)
(* The emulator is single threaded, so a state of the model is the         *)
(* contents of the nes_system_t object and of the file-scope statics it    *)
(* runs with (variable sys), the save-state file, and a history variable   *)
(* recording what the most recent host call did.  An action is one call    *)
(* the host makes into the emulator, run to its return; the one long call, *)
(* nes_sys_step_frame, is entered, advanced through its for loop and left  *)
(* by successive actions.  nes_cpu_step re-enters nes_cpu_execute_cycles   *)
(* through nes_sys_oam_dma, so the operators that model them are mutually  *)
(* recursive and carry the nesting depth.  Bytes are naturals below 256;   *)
(* uint16_t arithmetic is taken modulo 2^16.  Arrays that memset() clears  *)
(* are finite functions holding only their non-zero cells.                 *)
(***************************************************************************)
EXTENDS Integers, Sequences, FiniteSets, TLC

VARIABLES
  sys,       \* nes_system_t, its components and the statics of ppu.c/mapper.c
  savefile,  \* the files written by nes_sys_save_state: none or one
  frame,     \* the activation of nes_sys_step_frame: whether one is open, and i
  obs        \* history: what the most recent host call did and returned

vars == << sys, savefile, frame, obs >>

----------------------------------------------------------------------------
(* Fixed-width arithmetic and bit operations.                              *)

U8(x) == x % 256

U16(x) == x % 65536

\* uint32_t and uint64_t counters (cycle and frame counts): they start at 0
\* and the runs explored here keep them far below 2^31, so no wrap occurs
U32(x) == x

RECURSIVE BitAndN(_, _, _)
BitAndN(a, b, n) ==
  IF n = 0 \/ a = 0 \/ b = 0 THEN 0
  ELSE (a % 2) * (b % 2) + 2 * BitAndN(a \div 2, b \div 2, n - 1)

\* a & b of two 4-bit values, tabulated
NibbleAnd == [i \in 0..15 |-> [j \in 0..15 |-> BitAndN(i, j, 4)]]

\* a & b for operands of at most 16 bits (no wider operand is ever masked)
And(a, b) ==
  IF a < 256 \/ b < 256
  THEN NibbleAnd[a % 16][b % 16]
       + 16 * NibbleAnd[(a \div 16) % 16][(b \div 16) % 16]
  ELSE NibbleAnd[a % 16][b % 16]
       + 16 * NibbleAnd[(a \div 16) % 16][(b \div 16) % 16]
       + 256 * NibbleAnd[(a \div 256) % 16][(b \div 256) % 16]
       + 4096 * NibbleAnd[(a \div 4096) % 16][(b \div 4096) % 16]

Or(a, b) == a + b - And(a, b)

Xor(a, b) == a + b - 2 * And(a, b)

Not8(a) == 255 - a

Shl8(a, n) == (a * (2 ^ n)) % 256

Shr(a, n) == a \div (2 ^ n)

\* (x & flag) != 0 for a one-bit flag
Test(x, flag) == (x \div flag) % 2 = 1

\* the array cell a[i] of an array cleared by memset and written since
At(a, i) == IF i \in DOMAIN a THEN a[i] ELSE 0

\* a[i] = v
Put(a, i, v) ==
  IF v = 0 THEN IF i \in DOMAIN a THEN [j \in DOMAIN a \ {i} |-> a[j]] ELSE a
  ELSE (i :> v) @@ a

Empty == [j \in {} |-> 0]

----------------------------------------------------------------------------
(* Constants of the program.                                               *)

NES_RAM_SIZE == 2048

NES_RAM_END == 2047            \* 0x07FF

NES_RAM_MIRRORS == 8191        \* 0x1FFF

NES_ADDR_PPU_REG == 8192       \* 0x2000

NES_ADDR_APU_REG == 16384      \* 0x4000

NES_ADDR_CARTRIDGE == 16416    \* 0x4020

CONTROLLER_1 == 16406          \* 0x4016

CONTROLLER_2 == 16407          \* 0x4017

JOY_STROBE == 16406            \* 0x4016

OAM_DMA_ADDR == 16404          \* 0x4014

NES_CPU_PPU_RATIO == 3

NES_CPU_CYCLES_PER_FRAME == 29780

NES_PPU_CYCLES_PER_FRAME == 89341

NES_STACK_BASE == 256          \* 0x0100

NES_VECTOR_NMI == 65530        \* 0xFFFA

NES_VECTOR_RESET == 65532      \* 0xFFFC

NES_VECTOR_IRQ_BRK == 65534    \* 0xFFFE

FLAG_CARRY == 1

FLAG_ZERO == 2

FLAG_INTERRUPT == 4

FLAG_DECIMAL == 8

FLAG_BREAK == 16

FLAG_UNUSED == 32

FLAG_OVERFLOW == 64

FLAG_NEGATIVE == 128

PPUCTRL_NMI == 128

PPUCTRL_SP_SIZE == 32

PPUCTRL_BG_ADDR == 16

PPUCTRL_SP_ADDR == 8

PPUCTRL_INC32 == 4

PPUMASK_SHOW_BGR == 8

PPUMASK_SHOW_SPR == 16

PPUMASK_SHOW_BGR8 == 2

PPUMASK_SHOW_SPR8 == 4

PPUSTATUS == 8194              \* 0x2002

PPUSTATUS_VBLANK == 128

PPUSTATUS_SP0_HIT == 64

PPUSTATUS_SP_OVF == 32

SP_ATTR_PRIORITY == 32

SP_ATTR_FLIP_H == 64

SP_ATTR_PAL_MASK == 3

PPU_WIDTH == 256

PPU_SPRITE_COUNT == 64

NES_PRG_ROM_SIZE == 16384

NES_CHR_ROM_SIZE == 8192

PRG_RAM_SIZE == 8192

MIRROR_HORIZONTAL == 0

MIRROR_VERTICAL == 1

MIRROR_SINGLE_0 == 2

MIRROR_SINGLE_1 == 3

MIRROR_FOUR_SCREEN == 4

----------------------------------------------------------------------------
(* g_opcode_table of cpu.c: cycles and addressing mode of each opcode, and *)
(* the case group of the switch in nes_cpu_step that the opcode selects    *)
(* (opcodes with no case take the default branch, which does nothing).     *)

OpCyclesTable ==
  <<
    7, 6, 2, 2, 2, 3, 5, 2, 3, 2, 2, 2, 2, 4, 6, 2,
    2, 5, 2, 2, 2, 4, 6, 2, 2, 4, 2, 2, 2, 4, 7, 2,
    6, 6, 2, 2, 3, 3, 5, 2, 4, 2, 2, 2, 4, 4, 6, 2,
    2, 5, 2, 2, 2, 4, 6, 2, 2, 4, 2, 2, 2, 4, 7, 2,
    6, 6, 2, 2, 2, 3, 5, 2, 3, 2, 2, 2, 3, 4, 6, 2,
    2, 5, 2, 2, 2, 4, 6, 2, 2, 4, 2, 2, 2, 4, 7, 2,
    6, 6, 2, 2, 2, 3, 5, 2, 4, 2, 2, 2, 5, 4, 6, 2,
    2, 5, 2, 2, 2, 4, 6, 2, 2, 4, 2, 2, 2, 4, 7, 2,
    2, 6, 2, 2, 3, 3, 3, 2, 2, 2, 2, 2, 4, 4, 4, 2,
    2, 6, 2, 2, 4, 4, 4, 2, 2, 5, 2, 2, 2, 5, 2, 2,
    2, 6, 2, 2, 3, 3, 3, 2, 2, 2, 2, 2, 4, 4, 4, 2,
    2, 5, 2, 2, 4, 4, 4, 2, 2, 4, 2, 2, 4, 4, 4, 2,
    2, 6, 2, 2, 3, 3, 5, 2, 2, 2, 2, 2, 4, 4, 6, 2,
    2, 5, 2, 2, 2, 4, 6, 2, 2, 4, 2, 2, 2, 4, 7, 2,
    2, 6, 2, 2, 3, 3, 5, 2, 2, 2, 2, 2, 4, 4, 6, 2,
    2, 5, 2, 2, 2, 4, 6, 2, 2, 4, 2, 2, 2, 4, 7, 2 >>

OpModeTable ==
  <<
    "IMPLIED", "INDEXED_INDIRECT", "IMPLIED", "IMPLIED", "IMPLIED", "ZERO_PAGE", "ZERO_PAGE", "IMPLIED",
    "IMPLIED", "IMMEDIATE", "ACCUMULATOR", "IMPLIED", "IMPLIED", "ABSOLUTE", "ABSOLUTE", "IMPLIED",
    "RELATIVE", "INDIRECT_INDEXED", "IMPLIED", "IMPLIED", "IMPLIED", "ZERO_PAGE_X", "ZERO_PAGE_X", "IMPLIED",
    "IMPLIED", "ABSOLUTE_Y", "IMPLIED", "IMPLIED", "IMPLIED", "ABSOLUTE_X", "ABSOLUTE_X", "IMPLIED",
    "ABSOLUTE", "INDEXED_INDIRECT", "IMPLIED", "IMPLIED", "ZERO_PAGE", "ZERO_PAGE", "ZERO_PAGE", "IMPLIED",
    "IMPLIED", "IMMEDIATE", "ACCUMULATOR", "IMPLIED", "ABSOLUTE", "ABSOLUTE", "ABSOLUTE", "IMPLIED",
    "RELATIVE", "INDIRECT_INDEXED", "IMPLIED", "IMPLIED", "IMPLIED", "ZERO_PAGE_X", "ZERO_PAGE_X", "IMPLIED",
    "IMPLIED", "ABSOLUTE_Y", "IMPLIED", "IMPLIED", "IMPLIED", "ABSOLUTE_X", "ABSOLUTE_X", "IMPLIED",
    "IMPLIED", "INDEXED_INDIRECT", "IMPLIED", "IMPLIED", "IMPLIED", "ZERO_PAGE", "ZERO_PAGE", "IMPLIED",
    "IMPLIED", "IMMEDIATE", "ACCUMULATOR", "IMPLIED", "ABSOLUTE", "ABSOLUTE", "ABSOLUTE", "IMPLIED",
    "RELATIVE", "INDIRECT_INDEXED", "IMPLIED", "IMPLIED", "IMPLIED", "ZERO_PAGE_X", "ZERO_PAGE_X", "IMPLIED",
    "IMPLIED", "ABSOLUTE_Y", "IMPLIED", "IMPLIED", "IMPLIED", "ABSOLUTE_X", "ABSOLUTE_X", "IMPLIED",
    "IMPLIED", "INDEXED_INDIRECT", "IMPLIED", "IMPLIED", "IMPLIED", "ZERO_PAGE", "ZERO_PAGE", "IMPLIED",
    "IMPLIED", "IMMEDIATE", "ACCUMULATOR", "IMPLIED", "INDIRECT", "ABSOLUTE", "ABSOLUTE", "IMPLIED",
    "RELATIVE", "INDIRECT_INDEXED", "IMPLIED", "IMPLIED", "IMPLIED", "ZERO_PAGE_X", "ZERO_PAGE_X", "IMPLIED",
    "IMPLIED", "ABSOLUTE_Y", "IMPLIED", "IMPLIED", "IMPLIED", "ABSOLUTE_X", "ABSOLUTE_X", "IMPLIED",
    "IMPLIED", "INDEXED_INDIRECT", "IMPLIED", "IMPLIED", "ZERO_PAGE", "ZERO_PAGE", "ZERO_PAGE", "IMPLIED",
    "IMPLIED", "IMPLIED", "IMPLIED", "IMPLIED", "ABSOLUTE", "ABSOLUTE", "ABSOLUTE", "IMPLIED",
    "RELATIVE", "INDIRECT_INDEXED", "IMPLIED", "IMPLIED", "ZERO_PAGE_X", "ZERO_PAGE_X", "ZERO_PAGE_Y", "IMPLIED",
    "IMPLIED", "ABSOLUTE_Y", "IMPLIED", "IMPLIED", "IMPLIED", "ABSOLUTE_X", "IMPLIED", "IMPLIED",
    "IMMEDIATE", "INDEXED_INDIRECT", "IMMEDIATE", "IMPLIED", "ZERO_PAGE", "ZERO_PAGE", "ZERO_PAGE", "IMPLIED",
    "IMPLIED", "IMMEDIATE", "IMPLIED", "IMPLIED", "ABSOLUTE", "ABSOLUTE", "ABSOLUTE", "IMPLIED",
    "RELATIVE", "INDIRECT_INDEXED", "IMPLIED", "IMPLIED", "ZERO_PAGE_X", "ZERO_PAGE_X", "ZERO_PAGE_Y", "IMPLIED",
    "IMPLIED", "ABSOLUTE_Y", "IMPLIED", "IMPLIED", "ABSOLUTE_X", "ABSOLUTE_X", "ABSOLUTE_Y", "IMPLIED",
    "IMMEDIATE", "INDEXED_INDIRECT", "IMPLIED", "IMPLIED", "ZERO_PAGE", "ZERO_PAGE", "ZERO_PAGE", "IMPLIED",
    "IMPLIED", "IMMEDIATE", "IMPLIED", "IMPLIED", "ABSOLUTE", "ABSOLUTE", "ABSOLUTE", "IMPLIED",
    "RELATIVE", "INDIRECT_INDEXED", "IMPLIED", "IMPLIED", "IMPLIED", "ZERO_PAGE_X", "ZERO_PAGE_X", "IMPLIED",
    "IMPLIED", "ABSOLUTE_Y", "IMPLIED", "IMPLIED", "IMPLIED", "ABSOLUTE_X", "ABSOLUTE_X", "IMPLIED",
    "IMMEDIATE", "INDEXED_INDIRECT", "IMPLIED", "IMPLIED", "ZERO_PAGE", "ZERO_PAGE", "ZERO_PAGE", "IMPLIED",
    "IMPLIED", "IMMEDIATE", "IMPLIED", "IMPLIED", "ABSOLUTE", "ABSOLUTE", "ABSOLUTE", "IMPLIED",
    "RELATIVE", "INDIRECT_INDEXED", "IMPLIED", "IMPLIED", "IMPLIED", "ZERO_PAGE_X", "ZERO_PAGE_X", "IMPLIED",
    "IMPLIED", "ABSOLUTE_Y", "IMPLIED", "IMPLIED", "IMPLIED", "ABSOLUTE_X", "ABSOLUTE_X", "IMPLIED" >>

OpKindTable ==
  <<
    "BRK", "ORA", "NOP", "NOP", "NOP", "ORA", "ASL", "NOP",
    "PHP", "ORA", "ASL_A", "NOP", "NOP", "ORA", "ASL", "NOP",
    "BPL", "ORA", "NOP", "NOP", "NOP", "ORA", "ASL", "NOP",
    "CLC", "ORA", "NOP", "NOP", "NOP", "ORA", "ASL", "NOP",
    "JSR", "AND", "NOP", "NOP", "BIT", "AND", "ROL", "NOP",
    "PLP", "AND", "ROL_A", "NOP", "BIT", "AND", "ROL", "NOP",
    "BMI", "AND", "NOP", "NOP", "NOP", "AND", "ROL", "NOP",
    "SEC", "AND", "NOP", "NOP", "NOP", "AND", "ROL", "NOP",
    "RTI", "EOR", "NOP", "NOP", "NOP", "EOR", "LSR", "NOP",
    "PHA", "EOR", "LSR_A", "NOP", "JMP", "EOR", "LSR", "NOP",
    "BVC", "EOR", "NOP", "NOP", "NOP", "EOR", "LSR", "NOP",
    "CLI", "EOR", "NOP", "NOP", "NOP", "EOR", "LSR", "NOP",
    "RTS", "ADC", "NOP", "NOP", "NOP", "ADC", "ROR", "NOP",
    "PLA", "ADC", "ROR_A", "NOP", "JMP_IND", "ADC", "ROR", "NOP",
    "BVS", "ADC", "NOP", "NOP", "NOP", "ADC", "ROR", "NOP",
    "SEI", "ADC", "NOP", "NOP", "NOP", "ADC", "ROR", "NOP",
    "NOP", "STA", "NOP", "NOP", "STY", "STA", "STX", "NOP",
    "DEY", "NOP", "TXA", "NOP", "STY", "STA", "STX", "NOP",
    "BCC", "STA", "NOP", "NOP", "STY", "STA", "STX", "NOP",
    "TYA", "STA", "TXS", "NOP", "NOP", "STA", "NOP", "NOP",
    "LDY", "LDA", "LDX", "NOP", "LDY", "LDA", "LDX", "NOP",
    "TAY", "LDA", "TAX", "NOP", "LDY", "LDA", "LDX", "NOP",
    "BCS", "LDA", "NOP", "NOP", "LDY", "LDA", "LDX", "NOP",
    "CLV", "LDA", "TSX", "NOP", "LDY", "LDA", "LDX", "NOP",
    "CPY", "CMP", "NOP", "NOP", "CPY", "CMP", "DEC", "NOP",
    "INY", "CMP", "DEX", "NOP", "CPY", "CMP", "DEC", "NOP",
    "BNE", "CMP", "NOP", "NOP", "NOP", "CMP", "DEC", "NOP",
    "CLD", "CMP", "NOP", "NOP", "NOP", "CMP", "DEC", "NOP",
    "CPX", "SBC", "NOP", "NOP", "CPX", "SBC", "INC", "NOP",
    "INX", "SBC", "NOP", "NOP", "CPX", "SBC", "INC", "NOP",
    "BEQ", "SBC", "NOP", "NOP", "NOP", "SBC", "INC", "NOP",
    "SED", "SBC", "NOP", "NOP", "NOP", "SBC", "INC", "NOP" >>

OpCycles(opcode) == OpCyclesTable[opcode + 1]

OpMode(opcode) == OpModeTable[opcode + 1]

OpKind(opcode) == OpKindTable[opcode + 1]

----------------------------------------------------------------------------
(* Cartridge images.  An image is what nes_cartridge_load_memory copies    *)
(* out of an iNES file: the header fields and the PRG-ROM bytes.  PRG-ROM  *)
(* is given by its cells that are not zero; index 0 is CPU address $8000   *)
(* and, with two banks, index $7FFA is the NMI vector.                     *)

\* the bytes seq placed from index at on
Bytes(at, seq) == [i \in at .. (at + Len(seq) - 1) |-> seq[i - at + 1]]

\* LDA #$80 ; STA $2000 ; loop: JMP loop        NMI handler: INC $10 ; RTI
ImageNmi ==
  [ mapper |-> 0, prg_rom_banks |-> 2, chr_rom_banks |-> 1, flags6_mirror |-> 0,
    prg |-> Bytes(0, << 169, 128, 141, 0, 32, 76, 5, 128 >>) @@
              Bytes(16, << 230, 16, 64 >>) @@
              Bytes(32762, << 16, 128, 0, 128, 16, 128 >>) ]


\* the same program in one bank of PRG-ROM, its vectors at the end of the bank
ImageNrom16 ==
  [ mapper |-> 0, prg_rom_banks |-> 1, chr_rom_banks |-> 1, flags6_mirror |-> 0,
    prg |-> Bytes(0, << 169, 128, 141, 0, 32, 76, 5, 128 >>) @@
              Bytes(16, << 230, 16, 64 >>) @@
              Bytes(16378, << 16, 128, 0, 128, 16, 128 >>) ]

\* LDA #$00 ; STA $4017 ; CLI ; loop: JMP loop    NMI, IRQ and BRK: INC $10 ; RTI
ImageIrq ==
  [ mapper |-> 0, prg_rom_banks |-> 2, chr_rom_banks |-> 1, flags6_mirror |-> 0,
    prg |-> Bytes(0, << 169, 0, 141, 23, 64, 88, 76, 6, 128 >>) @@
              Bytes(16, << 230, 16, 64 >>) @@
              Bytes(32762, << 16, 128, 0, 128, 16, 128 >>) ]

\* the first program on a cartridge wired for vertical mirroring
ImageVertical == [ImageNmi EXCEPT !.flags6_mirror = 1]

\* an MMC3 cartridge of one 16 KiB bank:  loop: JMP loop
ImageMmc3 ==
  [ mapper |-> 4, prg_rom_banks |-> 1, chr_rom_banks |-> 1, flags6_mirror |-> 0,
    prg |-> Bytes(0, << 76, 0, 128 >>) @@
              Bytes(16, << 64 >>) @@
              Bytes(8186, << 16, 128, 0, 128, 16, 128 >>) ]

\* LDA #$02 ; STA $4014 ; INC $0200 ; loop: JMP loop
ImageDma ==
  [ mapper |-> 0, prg_rom_banks |-> 2, chr_rom_banks |-> 1, flags6_mirror |-> 0,
    prg |-> Bytes(0, << 169, 2, 141, 20, 64, 238, 0, 2, 76, 8, 128 >>) @@
              Bytes(16, << 64 >>) @@
              Bytes(32762, << 16, 128, 0, 128, 16, 128 >>) ]

\* loop: STA $4014 ; JMP loop
ImageDmaLoop ==
  [ mapper |-> 0, prg_rom_banks |-> 2, chr_rom_banks |-> 1, flags6_mirror |-> 0,
    prg |-> Bytes(0, << 141, 20, 64, 76, 0, 128 >>) @@
              Bytes(16, << 64 >>) @@
              Bytes(32762, << 16, 128, 0, 128, 16, 128 >>) ]

\* an MMC1 cartridge with CHR-RAM:  loop: JMP loop
ImageMmc1 ==
  [ mapper |-> 1, prg_rom_banks |-> 2, chr_rom_banks |-> 0, flags6_mirror |-> 1,
    prg |-> Bytes(0, << 76, 0, 128 >>) @@
              Bytes(16, << 64 >>) @@
              Bytes(32762, << 16, 128, 0, 128, 16, 128 >>) ]


\* a CHR-ROM whose tile 0 is opaque in every pixel; OAM entry 0 is moved to
\* line 240, entry 1 to line 16 at x = 16, both layers are shown everywhere
\* and the status register is polled:
\* LDA #$F0 ; STA $2004 ; LDA #$00 ; STA $2004 ; STA $2004 ; STA $2004 ;
\* LDA #$10 ; STA $2004 ; LDA #$00 ; STA $2004 ; STA $2004 ;
\* LDA #$10 ; STA $2004 ; LDA #$1E ; STA $2001 ;
\* loop: LDA $2002 ; JMP loop                          NMI, IRQ and BRK: RTI
ImageSprite ==
  [ mapper |-> 0, prg_rom_banks |-> 2, chr_rom_banks |-> 1, flags6_mirror |-> 0,
    chr |-> Bytes(0, << 255, 255, 255, 255, 255, 255, 255, 255 >>),
    prg |-> Bytes(0, << 169, 240, 141, 4, 32,
                        169, 0, 141, 4, 32, 141, 4, 32, 141, 4, 32,
                        169, 16, 141, 4, 32,
                        169, 0, 141, 4, 32, 141, 4, 32,
                        169, 16, 141, 4, 32,
                        169, 30, 141, 1, 32,
                        173, 2, 32, 76, 39, 128 >>) @@
              Bytes(64, << 64 >>) @@
              Bytes(32762, << 64, 128, 0, 128, 64, 128 >>) ]

\* the status byte v is pushed and pulled back by PLP, pushed and pulled
\* back by RTI, which returns to $0000, where RAM holds BRK:
\* LDA #v ; PHA ; PLP ; PHA ; RTI                     NMI, IRQ and BRK: RTI
ImagePull(v) ==
  [ mapper |-> 0, prg_rom_banks |-> 2, chr_rom_banks |-> 1, flags6_mirror |-> 0,
    prg |-> Bytes(0, << 169, v, 72, 40, 72, 64 >>) @@
              Bytes(16, << 64 >>) @@
              Bytes(32762, << 16, 128, 0, 128, 16, 128 >>) ]

\* at $8010: JMP ($81FF), whose pointer ends its page: $81FF holds $20,
\* $8100 holds $80 and $8200 holds $90;  at $8020: JMP ($8030), whose
\* pointer does not: $8030 holds $10 and $8031 holds $80
ImageJmpInd ==
  [ mapper |-> 0, prg_rom_banks |-> 2, chr_rom_banks |-> 1, flags6_mirror |-> 0,
    prg |-> Bytes(16, << 108, 255, 129 >>) @@
              Bytes(32, << 108, 48, 128 >>) @@
              Bytes(48, << 16, 128 >>) @@
              Bytes(256, << 128 >>) @@
              Bytes(511, << 32, 144 >>) @@
              Bytes(32762, << 0, 128, 16, 128, 0, 128 >>) ]
\* cart->prg_rom[i] for i inside the allocation
PrgRomByte(image, i) == At(image.prg, i)

\* an out-of-range index into a heap block yields whatever lies there
prg_rom(s, i) ==
  IF i < s.cartridge.info.prg_rom_size THEN PrgRomByte(s.cartridge.image, i)
  ELSE s.wild

chr_rom(s, i) ==
  IF i < s.cartridge.chr_alloc THEN At(s.cartridge.chr_rom, i) ELSE s.wild

\* x % size as the host computes it: with size = 0 the division traps on
\* hosts whose divide instruction faults and yields the dividend on hosts
\* whose divide instruction returns 0 (remainder = x - 0 * size)
HostMod(s, x, size) == IF size = 0 THEN x ELSE x % size

DivTraps(s, size) == size = 0 /\ s.build = "trap"

Trap(s) == [s EXCEPT !.host = "trapped"]

Ret(s, v) == [sys |-> s, val |-> v]

\* Call(fn, a) is the call fn(a[1], ..., a[n]) of a function of the program.
\* The functions call each other in a cycle (nes_cpu_step reaches itself
\* through the bus write, nes_sys_oam_dma and nes_cpu_execute_cycles), and
\* the memory accesses of the CPU and the PPU go through the callbacks that
\* nes_sys_init installs in cpu_bus_t and ppu_bus_t, so every call of one
\* function by another is made through this one recursive operator.
RECURSIVE Call(_, _)

\* g_bus->read, g_bus->write
bus_read(s, addr) == Call("nes_sys_cpu_read", << s, addr >>)

bus_write(s, addr, val) == Call("nes_sys_cpu_write", << s, addr, val >>)

\* g_ppu_bus->read_chr, g_ppu_bus->write_chr
read_chr(s, addr) == Call("nes_sys_ppu_read", << s, addr >>)

write_chr(s, addr, val) == Call("nes_sys_ppu_write", << s, addr, val >>)

----------------------------------------------------------------------------
(* mapper/mapper.c: mapper 0 (NROM) and mapper 1 (MMC1).                   *)

mapper_0_cpu_read(s, addr) ==
  IF addr >= 32768 THEN
    LET prg_addr == addr % 32768
        size == s.cartridge.prg_rom_size
    IN  IF prg_addr < size THEN Ret(s, prg_rom(s, prg_addr))
        ELSE IF DivTraps(s, size) THEN Ret(Trap(s), 0)
        ELSE Ret(s, prg_rom(s, HostMod(s, prg_addr, size)))
  ELSE Ret(s, 0)

mapper_0_cpu_write(s, addr, val) == s

mapper_0_ppu_read(s, addr) ==
  IF addr < 8192 THEN
    \* chr_rom_size - 1 is all ones when chr_rom_size is 0
    LET size == s.cartridge.chr_rom_size
    IN  Ret(s, chr_rom(s, IF size = 0 THEN addr ELSE And(addr, size - 1)))
  ELSE Ret(s, 0)

mapper_0_ppu_write(s, addr, val) ==
  IF addr < 8192 THEN
    LET size == s.cartridge.chr_rom_size
        i == IF size = 0 THEN addr ELSE And(addr, size - 1)
    IN  [s EXCEPT !.cartridge.chr_rom = Put(@, i, val)]
  ELSE s

mmc1_get_bank(s, bank) ==
  LET num_banks == s.cartridge.info.prg_rom_banks
  IN  IF num_banks <= 1 THEN 0 ELSE And(bank, num_banks - 1)

mapper_1_cpu_read(s, addr) ==
  LET m == s.ctx
      size == s.cartridge.prg_rom_size
      fetch(base) ==
        IF base < size THEN Ret(s, prg_rom(s, base))
        ELSE IF DivTraps(s, size) THEN Ret(Trap(s), 0)
        ELSE Ret(s, prg_rom(s, HostMod(s, base, size)))
  IN  IF addr >= 32768 THEN
        IF m.prg_mode \in {0, 1} THEN
          fetch(mmc1_get_bank(s, Or(And(m.prg_bank, 14), Shr(addr, 14) % 2))
                  * NES_PRG_ROM_SIZE + (addr % 32768))
        ELSE IF m.prg_mode = 2 THEN
          fetch(IF addr < 49152 THEN 0
                ELSE m.prg_bank * NES_PRG_ROM_SIZE + (addr % 16384))
        ELSE
          fetch(IF addr < 49152 THEN m.prg_bank * NES_PRG_ROM_SIZE + (addr % 16384)
                ELSE (s.cartridge.info.prg_rom_banks - 1) * NES_PRG_ROM_SIZE
                     + (addr % 16384))
      ELSE IF addr >= 24576 THEN Ret(s, At(s.cartridge.prg_ram, addr % 8192))
      ELSE Ret(s, 0)

nes_ppu_set_mirror_mode(s, mirroring) ==
  IF mirroring \in {0, 1, 2, 3} THEN [s EXCEPT !.g_mirror_mode = mirroring] ELSE s

mapper_1_write(s, addr, val) ==
  LET m == s.ctx
      reg == IF addr < 40960 THEN 0 ELSE IF addr < 49152 THEN 1
             ELSE IF addr < 57344 THEN 2 ELSE 3
  IN  IF Test(val, 128) THEN
        [s EXCEPT !.ctx.shift_reg = 16, !.ctx.shift_count = 0, !.ctx.prg_mode = 3]
      ELSE
        LET data == Or(Shr(m.shift_reg, 1), (val % 2) * 16)
            count == U8(m.shift_count + 1)
        IN  IF count = 5 THEN
              LET s1 ==
                    CASE reg = 0 ->
                           nes_ppu_set_mirror_mode(
                             [s EXCEPT !.ctx.control = data,
                                       !.ctx.mirroring = data % 4,
                                       !.ctx.prg_mode = Shr(data, 2) % 4,
                                       !.ctx.chr_mode = Shr(data, 4) % 2],
                             data % 4)
                      [] reg = 1 -> [s EXCEPT !.ctx.chr_bank_0 = data]
                      [] reg = 2 -> [s EXCEPT !.ctx.chr_bank_1 = data]
                      [] reg = 3 -> [s EXCEPT !.ctx.prg_bank = data % 16,
                                              !.ctx.prg_ram_disabled = Shr(data, 4) % 2]
              IN  [s1 EXCEPT !.ctx.shift_reg = 16, !.ctx.shift_count = 0]
            ELSE [s EXCEPT !.ctx.shift_reg = data, !.ctx.shift_count = count]

mapper_1_ppu_read(s, addr) ==
  LET m == s.ctx
      size == s.cartridge.chr_rom_size
      fetch(base) ==
        IF base < size THEN Ret(s, chr_rom(s, base))
        ELSE IF DivTraps(s, size) THEN Ret(Trap(s), 0)
        ELSE Ret(s, chr_rom(s, HostMod(s, base, size)))
  IN  IF addr < 8192 THEN
        IF m.chr_mode = 0 THEN fetch(And(m.chr_bank_0, 30) * NES_CHR_ROM_SIZE + addr)
        ELSE fetch((IF addr < 4096 THEN m.chr_bank_0 ELSE m.chr_bank_1)
                     * NES_CHR_ROM_SIZE + (addr % 4096))
      ELSE Ret(s, 0)

mapper_1_ppu_write(s, addr, val) ==
  LET m == s.ctx
      size == s.cartridge.chr_rom_size
      base == IF m.chr_mode = 0 THEN (Shr(m.chr_bank_0, 1) % 32) * NES_CHR_ROM_SIZE + addr
              ELSE (IF addr < 4096 THEN m.chr_bank_0 ELSE m.chr_bank_1)
                     * NES_CHR_ROM_SIZE + (addr % 4096)
  IN  IF addr < 8192 /\ s.cartridge.info.has_chrram = 1 THEN
        IF DivTraps(s, size) THEN Trap(s)
        ELSE [s EXCEPT !.cartridge.chr_rom = Put(@, HostMod(s, base, size), val)]
      ELSE s

mapper_1_init ==
  [ shift_reg |-> 16, shift_count |-> 0, control |-> 12, chr_bank_0 |-> 0,
    chr_bank_1 |-> 0, prg_bank |-> 0, prg_mode |-> 3, chr_mode |-> 0,
    mirroring |-> 2, prg_ram_disabled |-> 0 ]

\* the zero-initialised static context before any mapper_1_init
ctx_static ==
  [ shift_reg |-> 0, shift_count |-> 0, control |-> 0, chr_bank_0 |-> 0,
    chr_bank_1 |-> 0, prg_bank |-> 0, prg_mode |-> 0, chr_mode |-> 0,
    mirroring |-> 0, prg_ram_disabled |-> 0 ]

\* mapper 4 (MMC3): the static context of mapper_4_init, zero before it
mapper_4_init ==
  [ registers |-> [i \in 0..7 |-> 0], bank_select |-> 0, irq_counter |-> 0,
    irq_latch |-> 0, irq_enabled |-> 0, irq_reload |-> 0, prg_mode |-> 0,
    chr_mode |-> 0 ]

mapper_4_cpu_read(s0, addr) ==
  LET s == IF addr = 57344 THEN [s0 EXCEPT !.mmc3.irq_enabled = 0]
           ELSE IF addr = 57345 THEN [s0 EXCEPT !.mmc3.irq_enabled = 1]
           ELSE s0
      m == s.mmc3
      banks == s.cartridge.info.prg_rom_banks
      size == s.cartridge.prg_rom_size
      bank == IF m.prg_mode = 0 THEN
                IF addr < 40960 THEN m.registers[6]
                ELSE IF addr < 49152 THEN m.registers[7]
                ELSE IF addr < 57344 THEN U8(banks + 254)
                ELSE U8(banks + 255)
              ELSE
                IF addr < 40960 THEN U8(banks + 254)
                ELSE IF addr < 49152 THEN m.registers[7]
                ELSE IF addr < 57344 THEN m.registers[6]
                ELSE U8(banks + 255)
      base == bank * NES_PRG_ROM_SIZE * 8 + (addr % 8192)
  IN  IF addr >= 32768 THEN
        IF base < size THEN Ret(s, prg_rom(s, base))
        ELSE IF DivTraps(s, size) THEN Ret(Trap(s), 0)
        ELSE Ret(s, prg_rom(s, HostMod(s, base, size)))
      ELSE IF addr >= 24576 THEN Ret(s, At(s.cartridge.prg_ram, addr % 8192))
      ELSE Ret(s, 0)

mapper_4_write(s, addr, val) ==
  IF addr >= 32768 /\ addr < 40961 THEN
    IF addr % 2 = 1
    THEN [s EXCEPT !.mmc3.bank_select = val,
                   !.mmc3.prg_mode = Shr(val, 6) % 2,
                   !.mmc3.chr_mode = Shr(val, 7) % 2]
    ELSE s
  ELSE IF addr >= 40960 /\ addr < 49153 THEN
    [s EXCEPT !.mmc3.registers[s.mmc3.bank_select % 8] = val]
  ELSE IF addr >= 49152 /\ addr < 57345 THEN
    IF addr % 2 = 1 THEN [s EXCEPT !.mmc3.irq_reload = 1]
    ELSE [s EXCEPT !.mmc3.irq_latch = val]
  ELSE IF addr >= 57344 /\ addr < 65537 THEN
    [s EXCEPT !.mmc3.irq_enabled = addr % 2]
  ELSE IF addr >= 24576 /\ addr < 32768 THEN
    [s EXCEPT !.cartridge.prg_ram = Put(@, addr % 8192, val)]
  ELSE s

mapper_4_ppu_read(s, addr) ==
  IF addr < 8192 THEN
    LET m == s.mmc3
        even(b) == (b \div 2) * 2
        bank == IF m.chr_mode = 0 THEN
                  even(m.registers[IF addr < 2048 THEN 0
                                   ELSE IF addr < 4096 THEN 1
                                   ELSE IF addr < 5120 THEN 2
                                   ELSE IF addr < 6144 THEN 3
                                   ELSE IF addr < 7168 THEN 4 ELSE 5])
                ELSE
                  m.registers[IF addr < 1024 THEN 0
                              ELSE IF addr < 2048 THEN 1
                              ELSE IF addr < 3072 THEN 2
                              ELSE IF addr < 4096 THEN 3
                              ELSE IF addr < 5120 THEN 4 ELSE 5]
        base == bank * NES_CHR_ROM_SIZE + addr
        size == s.cartridge.chr_rom_size
    IN  IF base < size THEN Ret(s, chr_rom(s, base))
        ELSE IF DivTraps(s, size) THEN Ret(Trap(s), 0)
        ELSE Ret(s, chr_rom(s, HostMod(s, base, size)))
  ELSE Ret(s, 0)

mapper_4_ppu_write(s, addr, val) ==
  IF addr < 8192 /\ s.cartridge.info.has_chrram # 0 THEN
    LET size == s.cartridge.chr_rom_size
    IN  [s EXCEPT !.cartridge.chr_rom =
                    Put(@, IF size = 0 THEN addr ELSE And(addr, size - 1), val)]
  ELSE s

\* sys->mapper->cpu_read / cpu_write / ppu_read / ppu_write
mapper_cpu_read(s, addr) ==
  IF s.mapper.number = 1 THEN mapper_1_cpu_read(s, addr)
  ELSE IF s.mapper.number = 4 THEN mapper_4_cpu_read(s, addr)
  ELSE mapper_0_cpu_read(s, addr)

mapper_cpu_write(s, addr, val) ==
  IF s.mapper.number = 1 THEN mapper_1_write(s, addr, val)
  ELSE IF s.mapper.number = 4 THEN mapper_4_write(s, addr, val)
  ELSE mapper_0_cpu_write(s, addr, val)

nes_sys_ppu_read(s, addr) ==
  IF s.mapper.number = 1 THEN mapper_1_ppu_read(s, addr)
  ELSE IF s.mapper.number = 4 THEN mapper_4_ppu_read(s, addr)
  ELSE mapper_0_ppu_read(s, addr)

nes_sys_ppu_write(s, addr, val) ==
  IF s.mapper.number = 1 THEN mapper_1_ppu_write(s, addr, val)
  ELSE IF s.mapper.number = 4 THEN mapper_4_ppu_write(s, addr, val)
  ELSE mapper_0_ppu_write(s, addr, val)

nes_cartridge_write_prg_ram(s, addr, val) ==
  IF addr < s.cartridge.prg_ram_size
  THEN [s EXCEPT !.cartridge.prg_ram = Put(@, addr, val)] ELSE s

nes_cartridge_read_prg_ram(s, addr) ==
  IF addr < s.cartridge.prg_ram_size THEN At(s.cartridge.prg_ram, addr) ELSE 0

----------------------------------------------------------------------------
(* ppu/ppu.c: PPU memory and the CPU-visible registers.                    *)

\* red components g_nes_palette[i][0], which is what read_palette returns
g_nes_palette_0 ==
  << 102, 0, 20, 59, 92, 110, 108, 86, 51, 11, 0, 0, 0, 0, 0, 0,
     173, 21, 66, 117, 160, 183, 181, 153, 107, 56, 12, 0, 0, 0, 0, 0,
     255, 100, 146, 198, 243, 254, 254, 234, 188, 136, 92, 69, 72, 79, 0, 0,
     255, 192, 211, 232, 251, 254, 254, 247, 228, 207, 189, 179, 181, 184, 0, 0 >>

read_name_table_addr(s, addr) ==
  LET base == addr % 1024
      nt == Shr(addr, 10) % 4
      mode == s.g_mirror_mode
      b == CASE nt = 0 -> base
             [] nt = 1 -> IF mode \in {MIRROR_HORIZONTAL, MIRROR_SINGLE_1,
                                       MIRROR_FOUR_SCREEN}
                          THEN base + 1024 ELSE base
             [] nt = 2 -> IF mode \in {MIRROR_VERTICAL, MIRROR_SINGLE_1}
                          THEN base + 1024
                          ELSE IF mode = MIRROR_FOUR_SCREEN THEN base + 2048
                          ELSE base
             [] nt = 3 -> IF mode \in {MIRROR_HORIZONTAL, MIRROR_VERTICAL,
                                       MIRROR_SINGLE_1}
                          THEN base + 1024
                          ELSE IF mode = MIRROR_FOUR_SCREEN THEN base + 3072
                          ELSE base
  IN  8192 + b

\* the palette index without the folding
PaletteIndexUnfolded(addr) == addr % 32

\* the palette index after folding $10/$14/$18/$1C onto $00/$04/$08/$0C
PaletteIndex(addr) ==
  LET a == addr % 32 IN IF And(a, 19) = 16 THEN a - 16 ELSE a

read_palette(addr) == g_nes_palette_0[(PaletteIndex(addr) % 64) + 1]

ppu_read_vram(s, addr0) ==
  LET addr == addr0 % 16384
  IN  IF addr < 8192 THEN read_chr(s, addr)
      ELSE IF addr < 16128 THEN
        Ret(s, At(s.g_frame_buffer, (read_name_table_addr(s, addr) - 8192) % 4096))
      ELSE Ret(s, read_palette(addr))

ppu_write_vram(s, addr0, val) ==
  LET addr == addr0 % 16384
  IN  IF addr < 8192 THEN write_chr(s, addr, val)
      ELSE IF addr < 16128 THEN
        [s EXCEPT !.ppu.vram =
                    Put(@, (read_name_table_addr(s, addr) - 8192) % 4096, val)]
      ELSE [s EXCEPT !.ppu.palette = Put(@, PaletteIndex(addr), val % 64)]

increment_vram_addr(s) ==
  [s EXCEPT !.ppu.v = And(U16(@ + IF Test(s.ppu.ctrl, PPUCTRL_INC32) THEN 32 ELSE 1),
                          32767)]

write_ppu_scroll_x(s, val) ==
  [s EXCEPT !.ppu.t = Or(And(@, 65504), Shr(val, 3) % 32),
            !.ppu.x = val % 8,
            !.ppu.w = 1]

write_ppu_scroll_y(s, val) ==
  [s EXCEPT !.ppu.t = Or(And(Or(And(@, 64480), And(val, 248) * 4), 31775),
                         (val % 8) * 4096),
            !.ppu.w = 0]

write_ppu_addr(s, val) ==
  IF s.ppu.w = 0 THEN
    [s EXCEPT !.ppu.t = Or(And(@, 33023), (val % 64) * 256),
              !.ppu.v = Or(And(@, 33023), (val % 64) * 256),
              !.ppu.w = 1]
  ELSE
    [s EXCEPT !.ppu.t = Or(And(@, 32512), val),
              !.ppu.v = Or(And(@, 32512), val),
              !.ppu.w = 0]

nes_ppu_cpu_write(s, addr0, val) ==
  LET addr == addr0 % 8
  IN  CASE addr = 0 -> [s EXCEPT !.ppu.ctrl = val,
                                 !.ppu.t = Or(And(@, 29695), (val % 4) * 1024)]
        [] addr = 1 -> [s EXCEPT !.ppu.mask = val]
        [] addr = 3 -> [s EXCEPT !.ppu.oam_addr = val]
        [] addr = 4 -> [s EXCEPT !.ppu.oam = Put(@, s.ppu.oam_addr, val),
                                 !.ppu.oam_addr = U8(@ + 1)]
        [] addr = 5 -> IF s.ppu.w = 0 THEN Call("write_ppu_scroll_x", << s, val >>)
                       ELSE Call("write_ppu_scroll_y", << s, val >>)
        [] addr = 6 -> Call("write_ppu_addr", << s, val >>)
        [] addr = 7 -> increment_vram_addr(Call("ppu_write_vram", << s, s.ppu.v, val >>))
        [] OTHER -> s

\* a status read that leaves the write toggle alone
PpuCpuReadStatusKeepsW(s) ==
  Ret([s EXCEPT !.ppu.status = And(@, Not8(PPUSTATUS_VBLANK))],
      Or(And(s.ppu.status, PPUSTATUS_VBLANK + PPUSTATUS_SP0_HIT + PPUSTATUS_SP_OVF),
         s.ppu.data_buffer % 32))

\* case PPUSTATUS of nes_ppu_cpu_read
PpuCpuReadStatus(s) ==
  Ret([s EXCEPT !.ppu.status = And(@, Not8(PPUSTATUS_VBLANK)),
                !.ppu.w = 0],
      Or(And(s.ppu.status, PPUSTATUS_VBLANK + PPUSTATUS_SP0_HIT + PPUSTATUS_SP_OVF),
         s.ppu.data_buffer % 32))

nes_ppu_cpu_read(s, addr0) ==
  LET addr == addr0 % 8
  IN  CASE addr = 2 -> PpuCpuReadStatus(s)
        [] addr = 4 -> Ret(s, At(s.ppu.oam, s.ppu.oam_addr))
        [] addr = 7 ->
             LET r == Call("ppu_read_vram", << s, s.ppu.v >>)
                 s1 == [r.sys EXCEPT !.ppu.data_buffer = r.val]
             IN  Ret(increment_vram_addr(s1),
                     IF s.ppu.v % 16384 >= 16128 THEN r.val ELSE s.ppu.data_buffer)
        [] OTHER -> Ret(s, 0)

\* nes_ppu_oam_dma with page_data = &sys->ram[page << 8]: bytes past the end
\* of ram[] are whatever follows the array in the host's memory
page_index(page, i) == page * 256 + i

page_data(s, page, i) ==
  LET k == page_index(page, i)
  IN  IF k < NES_RAM_SIZE THEN At(s.ram, k) ELSE s.wild

nes_ppu_oam_dma(s, page) ==
  LET src(j) == page_data(s, page, U8(j - s.ppu.oam_addr + 256))
      nz == { j \in 0..255 : src(j) # 0 }
  IN  [s EXCEPT !.ppu.oam = [j \in nz |-> src(j)]]

----------------------------------------------------------------------------
(* apu/apu.c: channel registers, timers and the frame counter.             *)

g_length_table ==
  << 10, 254, 20, 2, 40, 4, 80, 6, 160, 8, 60, 10, 14, 12, 26, 14,
     12, 16, 24, 18, 48, 20, 96, 22, 192, 24, 72, 26, 16, 28, 32, 30 >>

g_noise_period_table ==
  << 4, 8, 16, 32, 64, 96, 128, 160, 202, 254, 380, 508, 762, 1016, 2034, 4068 >>

\* g_dmc_period_table entries stored into the uint8_t dmc.timer_period
g_dmc_period_table ==
  << 428, 380, 340, 320, 286, 254, 226, 214, 190, 160, 142, 128, 106, 84, 72, 54 >>

apu_envelope_zero ==
  [ start |-> 0, loop |-> 0, constant |-> 0, volume |-> 0, divider |-> 0,
    counter |-> 0, decay_level |-> 0 ]

apu_sweep_zero ==
  [ enabled |-> 0, period |-> 0, negate |-> 0, shift |-> 0, reload |-> 0,
    divider |-> 0, one |-> 0 ]

apu_square_zero ==
  [ envelope |-> apu_envelope_zero, sweep |-> apu_sweep_zero, timer_period |-> 0,
    timer_value |-> 0, duty |-> 0, duty_index |-> 0, length_counter |-> 0,
    length_enabled |-> 0 ]

apu_triangle_zero ==
  [ length_counter |-> 0, length_enabled |-> 0, timer_period |-> 0,
    timer_value |-> 0, linear_counter |-> 0, linear_counter_reload |-> 0,
    linear_counter_control |-> 0, linear_counter_reload_flag |-> 0,
    linear_counter_value |-> 0, sequencing |-> 0 ]

apu_noise_zero ==
  [ envelope |-> apu_envelope_zero, period |-> 0, timer_value |-> 0, mode |-> 0,
    length_counter |-> 0, length_enabled |-> 0, lfsr |-> 0 ]

apu_dmc_zero ==
  [ enabled |-> 0, irq |-> 0, loop |-> 0, sample_addr |-> 0, sample_length |-> 0,
    current_addr |-> 0, bytes_remaining |-> 0, sample_buffer |-> 0,
    sample_buffer_empty |-> 0, shift_register |-> 0, bits_remaining |-> 0,
    silence |-> 0, output |-> 0, timer_period |-> 0, timer_value |-> 0 ]

nes_apu_init ==
  [ square1 |-> apu_square_zero, square2 |-> apu_square_zero,
    triangle |-> apu_triangle_zero,
    noise |-> [apu_noise_zero EXCEPT !.lfsr = 1],
    dmc |-> [apu_dmc_zero EXCEPT !.sample_addr = 49152, !.sample_buffer_empty = 1,
                                 !.bits_remaining = 8],
    frame |-> [mode |-> 0, irq |-> 0, counter |-> 0],
    cycle_count |-> 0, frame_cycle |-> 0 ]

nes_apu_reset(apu) ==
  [apu EXCEPT !.square1 = apu_square_zero, !.square2 = apu_square_zero,
              !.triangle = apu_triangle_zero,
              !.noise = [apu_noise_zero EXCEPT !.lfsr = 1],
              !.dmc = apu_dmc_zero,
              !.frame.mode = 0, !.cycle_count = 0, !.frame_cycle = 0]

envelope_clock(env) ==
  IF env.start # 0 THEN
    [env EXCEPT !.start = 0, !.decay_level = 15, !.divider = env.volume]
  ELSE IF env.divider = 0 THEN
    [env EXCEPT !.divider = env.volume,
                !.decay_level = IF @ > 0 THEN @ - 1
                                ELSE IF env.loop # 0 THEN 15 ELSE @]
  ELSE [env EXCEPT !.divider = @ - 1]

square_timer_clock(sq) ==
  IF sq.timer_value = 0 THEN
    [sq EXCEPT !.timer_value = sq.timer_period, !.duty_index = (@ + 1) % 8]
  ELSE [sq EXCEPT !.timer_value = @ - 1]

triangle_clock_linear(tri) ==
  LET t1 == IF tri.linear_counter_reload_flag # 0
            THEN [tri EXCEPT !.linear_counter = tri.linear_counter_reload]
            ELSE IF tri.linear_counter > 0
            THEN [tri EXCEPT !.linear_counter = @ - 1]
            ELSE tri
  IN  IF t1.linear_counter_control = 0
      THEN [t1 EXCEPT !.linear_counter_reload_flag = 0] ELSE t1

triangle_timer_clock(tri) ==
  IF tri.timer_value = 0 THEN
    [tri EXCEPT !.timer_value = tri.timer_period,
                !.sequencing = IF tri.length_counter > 0 /\ tri.linear_counter > 0
                               THEN (@ + 1) % 32 ELSE @]
  ELSE [tri EXCEPT !.timer_value = @ - 1]

\* the feedback taken from the tap alone
NoiseTimerClockTapOnly(noise) ==
  IF noise.timer_value = 0 THEN
    LET tap == IF noise.mode # 0 THEN Shr(noise.lfsr, 6) % 2
               ELSE Shr(noise.lfsr, 1) % 2
    IN  [noise EXCEPT !.lfsr = U16(Or(Shr(@, 1), tap * 16384)),
                      !.timer_value = noise.period]
  ELSE [noise EXCEPT !.timer_value = @ - 1]

noise_timer_clock(noise) ==
  IF noise.timer_value = 0 THEN
    LET bit == noise.lfsr % 2
        tap == IF noise.mode # 0 THEN Shr(noise.lfsr, 6) % 2
               ELSE Shr(noise.lfsr, 1) % 2
        feedback == (bit + tap) % 2
    IN  [noise EXCEPT !.lfsr = U16(Or(Shr(@, 1), feedback * 16384)),
                      !.timer_value = noise.period]
  ELSE [noise EXCEPT !.timer_value = @ - 1]

\* dmc_clock_reader(NULL, NULL, dmc); g_apu_bus is NULL (nes_apu_init is
\* passed no bus), so no byte is stored into sample_buffer
dmc_clock_reader(dmc) ==
  IF dmc.sample_buffer_empty = 0 THEN dmc
  ELSE IF dmc.bytes_remaining = 0 THEN
    IF dmc.loop # 0
    THEN [dmc EXCEPT !.current_addr = dmc.sample_addr,
                     !.bytes_remaining = dmc.sample_length]
    ELSE dmc
  ELSE [dmc EXCEPT !.sample_buffer_empty = 0,
                   !.current_addr = Or(U16(@ + 1), 32768),
                   !.bytes_remaining = @ - 1]

dmc_clock_shifter(dmc) ==
  IF dmc.silence # 0 THEN dmc
  ELSE [dmc EXCEPT !.output = IF dmc.shift_register % 2 = 1
                              THEN (IF @ <= 125 THEN @ + 2 ELSE @)
                              ELSE (IF @ >= 2 THEN @ - 2 ELSE @),
                   !.shift_register = Shr(@, 1),
                   !.bits_remaining = U8(@ + 255)]

dmc_timer_clock(dmc) ==
  IF dmc.timer_value = 0 THEN
    LET d1 == [dmc EXCEPT !.timer_value = dmc.timer_period]
        d2 == IF d1.bits_remaining = 0 THEN
                IF d1.sample_buffer_empty # 0
                THEN [d1 EXCEPT !.bits_remaining = 8, !.silence = 1]
                ELSE dmc_clock_reader(
                       [d1 EXCEPT !.bits_remaining = 8, !.silence = 0,
                                  !.shift_register = d1.sample_buffer,
                                  !.sample_buffer_empty = 1])
              ELSE d1
    IN  dmc_clock_shifter(d2)
  ELSE [dmc EXCEPT !.timer_value = @ - 1]

frame_clock(apu, step) ==
  IF step = 0 \/ step = 2 THEN
    [apu EXCEPT !.square1.envelope = envelope_clock(@),
                !.square2.envelope = envelope_clock(@),
                !.noise.envelope = envelope_clock(@),
                !.triangle = triangle_clock_linear(@)]
  ELSE IF step = 1 THEN
    [apu EXCEPT !.square1.length_counter = IF @ > 0 THEN @ - 1 ELSE 0,
                !.square2.length_counter = IF @ > 0 THEN @ - 1 ELSE 0,
                !.noise.length_counter = IF @ > 0 THEN @ - 1 ELSE 0,
                !.triangle.length_counter = IF @ > 0 THEN @ - 1 ELSE 0]
  ELSE apu

nes_apu_step(apu) ==
  LET cycle == apu.cycle_count
      a1 == [apu EXCEPT !.cycle_count = U32(@ + 1),
                        !.frame_cycle = cycle,
                        !.square1 = square_timer_clock(@),
                        !.square2 = square_timer_clock(@),
                        !.triangle = triangle_timer_clock(@),
                        !.noise = noise_timer_clock(@),
                        !.dmc = dmc_timer_clock(@)]
  IN  IF a1.frame.mode = 0 THEN
        CASE cycle = 3729 -> frame_clock(a1, 0)
          [] cycle = 7457 -> frame_clock(a1, 1)
          [] cycle = 11186 -> frame_clock(a1, 0)
          [] cycle = 14915 -> [frame_clock(a1, 1) EXCEPT !.cycle_count = 0]
          [] OTHER -> a1
      ELSE
        CASE cycle = 3729 -> frame_clock(a1, 0)
          [] cycle = 7457 -> frame_clock(a1, 1)
          [] cycle = 11186 -> frame_clock(a1, 0)
          [] cycle = 18641 -> [frame_clock(a1, 0) EXCEPT !.cycle_count = 0]
          [] OTHER -> a1

ApuWriteSquare(sq, reg, val) ==
  CASE reg = 0 -> [sq EXCEPT !.duty = Shr(val, 6) % 4,
                             !.length_enabled = IF Test(val, 32) THEN 0 ELSE 1,
                             !.envelope.loop = IF Test(val, 32) THEN 1 ELSE 0,
                             !.envelope.constant = IF Test(val, 16) THEN 1 ELSE 0,
                             !.envelope.volume = val % 16]
    [] reg = 1 -> [sq EXCEPT !.sweep.enabled = IF Test(val, 128) THEN 1 ELSE 0,
                             !.sweep.period = Shr(val, 4) % 8,
                             !.sweep.negate = IF Test(val, 8) THEN 1 ELSE 0,
                             !.sweep.shift = val % 8,
                             !.sweep.reload = 1]
    [] reg = 2 -> [sq EXCEPT !.timer_period = Or(And(@, 1792), val)]
    [] reg = 3 -> [sq EXCEPT !.timer_period = Or(And(@, 255), (val % 8) * 256),
                             !.length_counter = g_length_table[(Shr(val, 3) % 32) + 1],
                             !.envelope.start = 1,
                             !.duty_index = 0]

nes_apu_cpu_write(apu, addr, val) ==
  CASE addr \in 16384..16387 ->
         [apu EXCEPT !.square1 = ApuWriteSquare(@, addr - 16384, val)]
    [] addr \in 16388..16391 ->
         [apu EXCEPT !.square2 = ApuWriteSquare(@, addr - 16388, val)]
    [] addr = 16392 ->
         [apu EXCEPT !.triangle.length_enabled = IF Test(val, 128) THEN 0 ELSE 1,
                     !.triangle.linear_counter_control = IF Test(val, 128) THEN 1 ELSE 0,
                     !.triangle.linear_counter_reload = val % 128]
    [] addr = 16394 ->
         [apu EXCEPT !.triangle.timer_period = Or(And(@, 1792), val)]
    [] addr = 16395 ->
         [apu EXCEPT !.triangle.timer_period = Or(And(@, 255), (val % 8) * 256),
                     !.triangle.length_counter = g_length_table[(Shr(val, 3) % 32) + 1],
                     !.triangle.linear_counter_reload_flag = 1]
    [] addr = 16396 ->
         [apu EXCEPT !.noise.length_enabled = IF Test(val, 32) THEN 0 ELSE 1,
                     !.noise.envelope.loop = IF Test(val, 32) THEN 1 ELSE 0,
                     !.noise.envelope.constant = IF Test(val, 16) THEN 1 ELSE 0,
                     !.noise.envelope.volume = val % 16]
    [] addr = 16398 ->
         [apu EXCEPT !.noise.mode = IF Test(val, 128) THEN 1 ELSE 0,
                     !.noise.period = g_noise_period_table[(val % 16) + 1]]
    [] addr = 16399 ->
         [apu EXCEPT !.noise.length_counter = g_length_table[(Shr(val, 3) % 32) + 1],
                     !.noise.envelope.start = 1]
    [] addr = 16400 ->
         [apu EXCEPT !.dmc.irq = IF Test(val, 128) THEN 1 ELSE 0,
                     !.dmc.loop = IF Test(val, 64) THEN 1 ELSE 0,
                     !.dmc.timer_period = U8(g_dmc_period_table[(val % 16) + 1])]
    [] addr = 16401 -> [apu EXCEPT !.dmc.output = val % 128]
    [] addr = 16402 -> [apu EXCEPT !.dmc.sample_addr = U16(Or(49152, val * 64))]
    [] addr = 16403 -> [apu EXCEPT !.dmc.sample_length = val * 16 + 1]
    [] addr = 16405 ->
         LET a1 == [apu EXCEPT
                      !.square1.length_counter = IF Test(val, 1) THEN @ ELSE 0,
                      !.square2.length_counter = IF Test(val, 2) THEN @ ELSE 0,
                      !.triangle.length_counter = IF Test(val, 4) THEN @ ELSE 0,
                      !.noise.length_counter = IF Test(val, 8) THEN @ ELSE 0]
         IN  IF Test(val, 16) THEN
               IF a1.dmc.bytes_remaining = 0
               THEN [a1 EXCEPT !.dmc.enabled = 1,
                               !.dmc.current_addr = a1.dmc.sample_addr,
                               !.dmc.bytes_remaining = a1.dmc.sample_length]
               ELSE [a1 EXCEPT !.dmc.enabled = 1]
             ELSE [a1 EXCEPT !.dmc.enabled = 0, !.dmc.bytes_remaining = 0]
    [] addr = 16407 ->
         LET a1 == [apu EXCEPT !.frame.mode = IF Test(val, 128) THEN 1 ELSE 0,
                               !.frame.irq = IF Test(val, 64) THEN 0 ELSE 1]
         IN  IF a1.frame.mode # 0 THEN frame_clock(a1, 0) ELSE a1
    [] OTHER -> apu

nes_apu_cpu_read(apu, addr) ==
  IF addr = 16405 THEN
    (IF apu.square1.length_counter > 0 THEN 1 ELSE 0)
    + (IF apu.square2.length_counter > 0 THEN 2 ELSE 0)
    + (IF apu.triangle.length_counter > 0 THEN 4 ELSE 0)
    + (IF apu.noise.length_counter > 0 THEN 8 ELSE 0)
    + (IF apu.dmc.bytes_remaining > 0 THEN 16 ELSE 0)
  ELSE 0

----------------------------------------------------------------------------
(* input/input.c: the controller ports.                                    *)

NUM_BUTTONS == 8

nes_input_init ==
  [ buttons |-> [c \in {0, 1} |-> [b \in 0..7 |-> 0]], strobe |-> 0,
    read_index |-> [c \in {0, 1} |-> 0] ]

nes_input_reset(input) ==
  [input EXCEPT !.strobe = 0, !.read_index = [c \in {0, 1} |-> 0]]

nes_input_set_button(input, controller, button, pressed) ==
  IF controller >= 0 /\ controller < 2 /\ button >= 0 /\ button < NUM_BUTTONS
  THEN [input EXCEPT !.buttons[controller][button] = IF pressed # 0 THEN 1 ELSE 0]
  ELSE input

nes_input_write_strobe(input, value) ==
  LET strobe == value % 2
  IN  IF strobe = 1 /\ input.strobe = 0
      THEN [input EXCEPT !.read_index = [c \in {0, 1} |-> 0], !.strobe = strobe]
      ELSE [input EXCEPT !.strobe = strobe]

\* returns the new input state and the byte read
nes_input_read(input, controller) ==
  LET cid == IF controller = 0 THEN 0 ELSE 1
  IN  IF input.strobe # 0 THEN
        [input |-> input,
         val |-> Or(IF input.buttons[cid][0] # 0 THEN 1 ELSE 0, 64)]
      ELSE IF input.read_index[cid] < NUM_BUTTONS THEN
        [input |-> [input EXCEPT !.read_index[cid] = @ + 1],
         val |-> Or(IF input.buttons[cid][input.read_index[cid]] # 0 THEN 1 ELSE 0, 64)]
      ELSE [input |-> input, val |-> 64]

----------------------------------------------------------------------------
(* memory/bus.c: CPU address decoding.                                     *)

nes_sys_cpu_read(s, addr0) ==
  LET addr == addr0 % 65536
  IN  IF addr < NES_RAM_MIRRORS THEN Ret(s, At(s.ram, And(addr, NES_RAM_END)))
      ELSE IF addr >= NES_ADDR_PPU_REG /\ addr < NES_ADDR_PPU_REG + 8 THEN
        Call("nes_ppu_cpu_read", << s, And(addr, 7) >>)
      ELSE IF addr >= NES_ADDR_APU_REG /\ addr < NES_ADDR_CARTRIDGE THEN
        IF addr = CONTROLLER_1 \/ addr = CONTROLLER_2 THEN
          LET r == Call("nes_input_read", << s.input, IF addr = CONTROLLER_1 THEN 0 ELSE 1 >>)
          IN  Ret([s EXCEPT !.input = r.input], r.val)
        ELSE Ret(s, nes_apu_cpu_read(s.apu, addr))
      ELSE IF addr >= NES_ADDR_CARTRIDGE THEN
        IF addr >= 24576 /\ addr < 32768
        THEN Ret(s, nes_cartridge_read_prg_ram(s, addr - 24576))
        ELSE Call("mapper_cpu_read", << s, addr >>)
      ELSE Ret(s, At(s.ram, And(addr, NES_RAM_END)))

\* The result of a write is the new state and, when the write was to
\* OAM_DMA_ADDR, the page handed to nes_sys_oam_dma (otherwise -1); the
\* call of nes_sys_oam_dma itself is made by the caller, which knows the
\* nesting depth.
Wrote(s, dma) == [sys |-> s, dma |-> dma]

nes_sys_cpu_write(s, addr0, val) ==
  LET addr == addr0 % 65536
  IN  IF addr < NES_RAM_MIRRORS THEN
        Wrote([s EXCEPT !.ram = Put(@, And(addr, NES_RAM_END), val)], -1)
      ELSE IF addr >= NES_ADDR_PPU_REG /\ addr < NES_ADDR_PPU_REG + 8 THEN
        Wrote(Call("nes_ppu_cpu_write", << s, And(addr, 7), val >>), -1)
      ELSE IF addr >= NES_ADDR_APU_REG /\ addr < NES_ADDR_CARTRIDGE THEN
        IF addr = OAM_DMA_ADDR THEN Wrote(s, val)
        ELSE IF addr = JOY_STROBE
        THEN Wrote([s EXCEPT !.input = nes_input_write_strobe(@, val)], -1)
        ELSE Wrote([s EXCEPT !.apu = Call("nes_apu_cpu_write", << @, addr, val >>)], -1)
      ELSE IF addr >= 24576 THEN
        LET s1 == IF addr < 32768
                  THEN nes_cartridge_write_prg_ram(s, addr - 24576, val) ELSE s
        IN  Wrote(Call("mapper_cpu_write", << s1, addr, val >>), -1)
      ELSE Wrote(s, -1)

----------------------------------------------------------------------------
(* cpu/cpu.h, cpu/cpu.c: the 6502 core.                                    *)

nes_cpu_get_flag(s, flag) == IF Test(s.cpu.p, flag) THEN 1 ELSE 0

nes_cpu_set_flag(s, flag, value) ==
  [s EXCEPT !.cpu.p = IF value # 0
                      THEN (IF Test(@, flag) THEN @ ELSE @ + flag)
                      ELSE (IF Test(@, flag) THEN @ - flag ELSE @)]

nes_cpu_update_zn(s, val) ==
  nes_cpu_set_flag(nes_cpu_set_flag(s, FLAG_ZERO, IF val = 0 THEN 1 ELSE 0),
                   FLAG_NEGATIVE, IF Test(val, 128) THEN 1 ELSE 0)

nes_cpu_push(s, val) ==
  LET w == bus_write(s, NES_STACK_BASE + s.cpu.sp, val)
  IN  [w.sys EXCEPT !.cpu.sp = U8(@ + 255)]

nes_cpu_pop(s) ==
  LET s1 == [s EXCEPT !.cpu.sp = U8(@ + 1)]
  IN  bus_read(s1, NES_STACK_BASE + s1.cpu.sp)

nes_cpu_push_word(s, val) ==
  Call("nes_cpu_push", << Call("nes_cpu_push", << s, Shr(val, 8) % 256 >>), val % 256 >>)

nes_cpu_pop_word(s) ==
  LET lo == Call("nes_cpu_pop", << s >>)
      hi == Call("nes_cpu_pop", << lo.sys >>)
  IN  Ret(hi.sys, hi.val * 256 + lo.val)

\* g_bus->read(g_bus->context, cpu->reg.pc++)
FetchPc(s) ==
  LET r == bus_read(s, s.cpu.pc)
  IN  Ret([r.sys EXCEPT !.cpu.pc = U16(@ + 1)], r.val)

read16(s, addr) ==
  LET lo == bus_read(s, addr)
      hi == bus_read(lo.sys, U16(addr + 1))
  IN  Ret(hi.sys, lo.val + hi.val * 256)

\* (int8_t)b
Int8(b) == IF b >= 128 THEN b - 256 ELSE b

\* base + index with the page boundary penalty
Indexed(s, base, index) ==
  LET addr == U16(base + index)
  IN  Ret(IF base \div 256 # addr \div 256
          THEN [s EXCEPT !.cpu.stall_cycles = 1] ELSE s,
          addr)

\* the address after the pointer, in whatever page it lies
IndirectHighNextPage(ptr) == U16(ptr + 1)

\* MODE_INDIRECT: where the high byte of the target is read,
\* (ptr & 0xFF00) | ((ptr + 1) & 0xFF)
IndirectHigh(ptr) == (ptr \div 256) * 256 + ((ptr + 1) % 256)

get_effective_address(s, mode) ==
  CASE mode = "IMMEDIATE" -> Ret([s EXCEPT !.cpu.pc = U16(@ + 1)], s.cpu.pc)
    [] mode = "ZERO_PAGE" -> Call("FetchPc", << s >>)
    [] mode = "ZERO_PAGE_X" ->
         LET r == Call("FetchPc", << s >>) IN Ret(r.sys, (r.val + s.cpu.x) % 256)
    [] mode = "ZERO_PAGE_Y" ->
         LET r == Call("FetchPc", << s >>) IN Ret(r.sys, (r.val + s.cpu.y) % 256)
    [] mode = "ABSOLUTE" ->
         LET r == Call("read16", << s, s.cpu.pc >>)
         IN  Ret([r.sys EXCEPT !.cpu.pc = U16(@ + 2)], r.val)
    [] mode = "ABSOLUTE_X" ->
         LET r == Call("read16", << s, s.cpu.pc >>)
         IN  Indexed([r.sys EXCEPT !.cpu.pc = U16(@ + 2)], r.val, s.cpu.x)
    [] mode = "ABSOLUTE_Y" ->
         LET r == Call("read16", << s, s.cpu.pc >>)
         IN  Indexed([r.sys EXCEPT !.cpu.pc = U16(@ + 2)], r.val, s.cpu.y)
    [] mode = "INDIRECT" ->
         LET r == Call("read16", << s, s.cpu.pc >>)
             ptr == r.val
             s1 == [r.sys EXCEPT !.cpu.pc = U16(@ + 2)]
             lo == bus_read(s1, ptr)
             hi == bus_read(lo.sys, IndirectHigh(ptr))
         IN  Ret(hi.sys, lo.val + hi.val * 256)
    [] mode = "INDEXED_INDIRECT" ->
         LET r == Call("FetchPc", << s >>)
             ptr == (r.val + s.cpu.x) % 256
             lo == bus_read(r.sys, ptr)
             hi == bus_read(lo.sys, (ptr + 1) % 256)
         IN  Ret(hi.sys, lo.val + hi.val * 256)
    [] mode = "INDIRECT_INDEXED" ->
         LET r == Call("FetchPc", << s >>)
             ptr == r.val
             lo == bus_read(r.sys, ptr)
             hi == bus_read(lo.sys, (ptr + 1) % 256)
         IN  Indexed(hi.sys, lo.val + hi.val * 256, s.cpu.y)
    [] mode = "RELATIVE" ->
         LET r == Call("FetchPc", << s >>) IN Ret(r.sys, U16(r.sys.cpu.pc + Int8(r.val) + 65536))
    [] OTHER -> Ret(s, 0)

load_byte(s, mode) ==
  CASE mode = "ACCUMULATOR" -> Ret(s, s.cpu.a)
    [] mode = "IMMEDIATE" -> Call("FetchPc", << s >>)
    [] OTHER -> LET ea == Call("get_effective_address", << s, mode >>)
                IN  bus_read(ea.sys, ea.val)

store_byte(s, mode, value) ==
  LET ea == Call("get_effective_address", << s, mode >>)
  IN  bus_write(ea.sys, ea.val, value)

do_branch(s, condition) ==
  LET r == Call("FetchPc", << s >>)
      old_pc == r.sys.cpu.pc
      new_pc == U16(old_pc + Int8(r.val) + 65536)
  IN  IF condition # 0 THEN
        [r.sys EXCEPT !.cpu.pc = new_pc,
                      !.cpu.stall_cycles =
                         IF old_pc \div 256 # new_pc \div 256 THEN 1 ELSE @]
      ELSE r.sys

compare(s, reg_val, mem_val) ==
  LET result == U8(reg_val - mem_val + 256)
      s1 == nes_cpu_set_flag(s, FLAG_CARRY, IF reg_val >= mem_val THEN 1 ELSE 0)
      s2 == nes_cpu_set_flag(s1, FLAG_ZERO, IF result = 0 THEN 1 ELSE 0)
  IN  nes_cpu_set_flag(s2, FLAG_NEGATIVE, IF Test(result, 128) THEN 1 ELSE 0)

\* an addition that sets V whenever the result and A differ in bit 7
DoAdcOverflowFromResultOnly(s, value) ==
  LET a == s.cpu.a
      result == a + value + nes_cpu_get_flag(s, FLAG_CARRY)
      s1 == nes_cpu_set_flag(s, FLAG_CARRY, IF result > 255 THEN 1 ELSE 0)
      s2 == nes_cpu_set_flag(s1, FLAG_OVERFLOW,
              IF Test(Xor(a, result % 256), 128) THEN 1 ELSE 0)
      s3 == [s2 EXCEPT !.cpu.a = result % 256]
  IN  nes_cpu_update_zn(s3, s3.cpu.a)

do_adc(s, value) ==
  LET a == s.cpu.a
      result == a + value + nes_cpu_get_flag(s, FLAG_CARRY)
      s1 == nes_cpu_set_flag(s, FLAG_CARRY, IF result > 255 THEN 1 ELSE 0)
      s2 == nes_cpu_set_flag(s1, FLAG_OVERFLOW,
              IF Test(And(Not8(Xor(a, value)), Xor(a, result % 256)), 128)
              THEN 1 ELSE 0)
      s3 == [s2 EXCEPT !.cpu.a = result % 256]
  IN  nes_cpu_update_zn(s3, s3.cpu.a)

do_sbc(s, value) == Call("do_adc", << s, Not8(value) >>)

\* the shift helpers return the new byte and the carry out
Shifted(val, carry) == [val |-> val, carry |-> carry]

do_rol(value, carry_in) ==
  LET result == value * 2 + carry_in
  IN  Shifted(result % 256, IF result > 255 THEN 1 ELSE 0)

do_ror(value, carry_in) ==
  Shifted(Shr(value, 1) + carry_in * 128, value % 2)

do_asl_cpu(value) == Shifted(Shl8(value, 1), IF Test(value, 128) THEN 1 ELSE 0)

do_lsr_cpu(value) == Shifted(Shr(value, 1), value % 2)

\* What the switch of nes_cpu_step has done when control reaches either the
\* end of the case or a write to OAM_DMA_ADDR: the state, the DMA page of
\* such a write (-1 if none), and the flag updates the case makes after its
\* bus write (carry, zn: -1 if none).
Case(s) == [sys |-> s, dma |-> -1, carry |-> -1, zn |-> -1]

CaseWrite(w, carry, zn) == [sys |-> w.sys, dma |-> w.dma, carry |-> carry, zn |-> zn]

\* read-modify-write cases: 0 ASL, 1 LSR, 2 ROL, 3 ROR, 4 DEC, 5 INC
Modify(s, mode, op) ==
  LET ea == Call("get_effective_address", << s, mode >>)
      rd == bus_read(ea.sys, ea.val)
      cin == nes_cpu_get_flag(rd.sys, FLAG_CARRY)
      res == CASE op = 0 -> do_asl_cpu(rd.val)
               [] op = 1 -> do_lsr_cpu(rd.val)
               [] op = 2 -> do_rol(rd.val, cin)
               [] op = 3 -> do_ror(rd.val, cin)
               [] op = 4 -> Shifted(U8(rd.val + 255), -1)
               [] op = 5 -> Shifted(U8(rd.val + 1), -1)
  IN  CaseWrite(bus_write(rd.sys, ea.val, res.val), res.carry, res.val)

\* accumulator forms of the shifts
ModifyA(s, op) ==
  LET cin == nes_cpu_get_flag(s, FLAG_CARRY)
      res == CASE op = 0 -> do_asl_cpu(s.cpu.a)
               [] op = 1 -> do_lsr_cpu(s.cpu.a)
               [] op = 2 -> do_rol(s.cpu.a, cin)
               [] op = 3 -> do_ror(s.cpu.a, cin)
      s1 == nes_cpu_set_flag([s EXCEPT !.cpu.a = res.val], FLAG_CARRY, res.carry)
  IN  Case(nes_cpu_update_zn(s1, res.val))

\* loads and ALU cases, which read one operand through load_byte
Operand(s, mode, kind) ==
  LET r == Call("load_byte", << s, mode >>)
      t == r.sys
      v == r.val
  IN  CASE kind = "ADC" -> Call("do_adc", << t, v >>)
        [] kind = "SBC" -> do_sbc(t, v)
        [] kind = "AND" -> LET a == And(t.cpu.a, v)
                           IN  nes_cpu_update_zn([t EXCEPT !.cpu.a = a], a)
        [] kind = "ORA" -> LET a == Or(t.cpu.a, v)
                           IN  nes_cpu_update_zn([t EXCEPT !.cpu.a = a], a)
        [] kind = "EOR" -> LET a == Xor(t.cpu.a, v)
                           IN  nes_cpu_update_zn([t EXCEPT !.cpu.a = a], a)
        [] kind = "CMP" -> Call("compare", << t, t.cpu.a, v >>)
        [] kind = "CPX" -> Call("compare", << t, t.cpu.x, v >>)
        [] kind = "CPY" -> Call("compare", << t, t.cpu.y, v >>)
        [] kind = "LDA" -> nes_cpu_update_zn([t EXCEPT !.cpu.a = v], v)
        [] kind = "LDX" -> nes_cpu_update_zn([t EXCEPT !.cpu.x = v], v)
        [] kind = "LDY" -> nes_cpu_update_zn([t EXCEPT !.cpu.y = v], v)
        [] kind = "BIT" ->
             LET s1 == nes_cpu_set_flag(t, FLAG_ZERO,
                                        IF And(t.cpu.a, v) = 0 THEN 1 ELSE 0)
                 s2 == nes_cpu_set_flag(s1, FLAG_OVERFLOW,
                                        IF Test(v, 64) THEN 1 ELSE 0)
             IN  nes_cpu_set_flag(s2, FLAG_NEGATIVE, IF Test(v, 128) THEN 1 ELSE 0)

\* pushes the return state and loads PC from a vector: shared by the NMI and
\* IRQ entries and (with FLAG_BREAK in the pushed status) by BRK
EnterVector(s, pushed_status, vector) ==
  LET s1 == Call("nes_cpu_push", << nes_cpu_push_word(s, s.cpu.pc), pushed_status >>)
      lo == bus_read(s1, vector)
      hi == bus_read(lo.sys, vector + 1)
      s2 == [hi.sys EXCEPT !.cpu.pc = lo.val + hi.val * 256]
  IN  [s2 EXCEPT !.cpu.p = Or(@, FLAG_INTERRUPT)]

\* a pulled status byte taken as it is but for FLAG_BREAK
PulledStatusKeepsBit5(status) == And(status, Not8(FLAG_BREAK))

\* what PLP and RTI put in P for a pulled status byte
PulledStatus(status) ==
  Or(And(status, Not8(FLAG_BREAK + FLAG_UNUSED)), FLAG_UNUSED)

\* the switch (opcode) of nes_cpu_step; s has PC already past the opcode
Execute(s, opcode) ==
  LET kind == OpKind(opcode)
      mode == OpMode(opcode)
      flag(f) == nes_cpu_get_flag(s, f)
  IN  CASE kind \in {"ADC", "SBC", "AND", "ORA", "EOR", "CMP", "CPX", "CPY",
                     "LDA", "LDX", "LDY", "BIT"} -> Case(Call("Operand", << s, mode, kind >>))
        [] kind = "ASL_A" -> Call("ModifyA", << s, 0 >>)
        [] kind = "LSR_A" -> Call("ModifyA", << s, 1 >>)
        [] kind = "ROL_A" -> Call("ModifyA", << s, 2 >>)
        [] kind = "ROR_A" -> Call("ModifyA", << s, 3 >>)
        [] kind = "ASL" -> Call("Modify", << s, mode, 0 >>)
        [] kind = "LSR" -> Call("Modify", << s, mode, 1 >>)
        [] kind = "ROL" -> Call("Modify", << s, mode, 2 >>)
        [] kind = "ROR" -> Call("Modify", << s, mode, 3 >>)
        [] kind = "DEC" -> Call("Modify", << s, mode, 4 >>)
        [] kind = "INC" -> Call("Modify", << s, mode, 5 >>)
        [] kind = "BCC" -> Case(Call("do_branch", << s, 1 - flag(FLAG_CARRY) >>))
        [] kind = "BCS" -> Case(Call("do_branch", << s, flag(FLAG_CARRY) >>))
        [] kind = "BEQ" -> Case(Call("do_branch", << s, flag(FLAG_ZERO) >>))
        [] kind = "BNE" -> Case(Call("do_branch", << s, 1 - flag(FLAG_ZERO) >>))
        [] kind = "BMI" -> Case(Call("do_branch", << s, flag(FLAG_NEGATIVE) >>))
        [] kind = "BPL" -> Case(Call("do_branch", << s, 1 - flag(FLAG_NEGATIVE) >>))
        [] kind = "BVC" -> Case(Call("do_branch", << s, 1 - flag(FLAG_OVERFLOW) >>))
        [] kind = "BVS" -> Case(Call("do_branch", << s, flag(FLAG_OVERFLOW) >>))
        [] kind = "BRK" ->
             Case(Call("EnterVector", << [s EXCEPT !.cpu.pc = U16(@ + 1)],
                              Or(s.cpu.p, FLAG_BREAK + FLAG_UNUSED),
                              NES_VECTOR_IRQ_BRK >>))
        [] kind = "CLC" -> Case(nes_cpu_set_flag(s, FLAG_CARRY, 0))
        [] kind = "CLD" -> Case(nes_cpu_set_flag(s, FLAG_DECIMAL, 0))
        [] kind = "CLI" -> Case(nes_cpu_set_flag(s, FLAG_INTERRUPT, 0))
        [] kind = "CLV" -> Case(nes_cpu_set_flag(s, FLAG_OVERFLOW, 0))
        [] kind = "SEC" -> Case(nes_cpu_set_flag(s, FLAG_CARRY, 1))
        [] kind = "SED" -> Case(nes_cpu_set_flag(s, FLAG_DECIMAL, 1))
        [] kind = "SEI" -> Case(nes_cpu_set_flag(s, FLAG_INTERRUPT, 1))
        [] kind = "DEX" -> LET v == U8(s.cpu.x + 255)
                           IN  Case(nes_cpu_update_zn([s EXCEPT !.cpu.x = v], v))
        [] kind = "DEY" -> LET v == U8(s.cpu.y + 255)
                           IN  Case(nes_cpu_update_zn([s EXCEPT !.cpu.y = v], v))
        [] kind = "INX" -> LET v == U8(s.cpu.x + 1)
                           IN  Case(nes_cpu_update_zn([s EXCEPT !.cpu.x = v], v))
        [] kind = "INY" -> LET v == U8(s.cpu.y + 1)
                           IN  Case(nes_cpu_update_zn([s EXCEPT !.cpu.y = v], v))
        [] kind = "JMP" -> LET ea == Call("get_effective_address", << s, "ABSOLUTE" >>)
                           IN  Case([ea.sys EXCEPT !.cpu.pc = ea.val])
        [] kind = "JMP_IND" -> LET ea == Call("get_effective_address", << s, "INDIRECT" >>)
                               IN  Case([ea.sys EXCEPT !.cpu.pc = ea.val])
        [] kind = "JSR" ->
             LET ea == Call("get_effective_address", << s, "ABSOLUTE" >>)
                 s1 == [ea.sys EXCEPT !.cpu.pc = U16(@ + 65535)]
                 s2 == nes_cpu_push_word(s1, s1.cpu.pc)
             IN  Case([s2 EXCEPT !.cpu.pc = U16(ea.val + 1)])
        [] kind = "PHA" -> Case(Call("nes_cpu_push", << s, s.cpu.a >>))
        [] kind = "PHP" -> Case(Call("nes_cpu_push", << s, Or(s.cpu.p, FLAG_BREAK + FLAG_UNUSED) >>))
        [] kind = "PLA" -> LET r == Call("nes_cpu_pop", << s >>)
                           IN  Case(nes_cpu_update_zn([r.sys EXCEPT !.cpu.a = r.val],
                                                      r.val))
        [] kind = "PLP" ->
             LET r == Call("nes_cpu_pop", << s >>)
             IN  Case([r.sys EXCEPT !.cpu.p = PulledStatus(r.val)])
        [] kind = "RTI" ->
             LET r == Call("nes_cpu_pop", << s >>)
                 s1 == [r.sys EXCEPT !.cpu.p = PulledStatus(r.val)]
                 pc == nes_cpu_pop_word(s1)
             IN  Case([pc.sys EXCEPT !.cpu.pc = pc.val])
        [] kind = "RTS" -> LET pc == nes_cpu_pop_word(s)
                           IN  Case([pc.sys EXCEPT !.cpu.pc = U16(pc.val + 1)])
        [] kind = "STA" -> CaseWrite(Call("store_byte", << s, mode, s.cpu.a >>), -1, -1)
        [] kind = "STX" -> CaseWrite(Call("store_byte", << s, mode, s.cpu.x >>), -1, -1)
        [] kind = "STY" -> CaseWrite(Call("store_byte", << s, mode, s.cpu.y >>), -1, -1)
        [] kind = "TAX" -> Case(nes_cpu_update_zn([s EXCEPT !.cpu.x = s.cpu.a], s.cpu.a))
        [] kind = "TAY" -> Case(nes_cpu_update_zn([s EXCEPT !.cpu.y = s.cpu.a], s.cpu.a))
        [] kind = "TSX" -> Case(nes_cpu_update_zn([s EXCEPT !.cpu.x = s.cpu.sp], s.cpu.sp))
        [] kind = "TXA" -> Case(nes_cpu_update_zn([s EXCEPT !.cpu.a = s.cpu.x], s.cpu.x))
        [] kind = "TYA" -> Case(nes_cpu_update_zn([s EXCEPT !.cpu.a = s.cpu.y], s.cpu.y))
        [] kind = "TXS" -> Case([s EXCEPT !.cpu.sp = s.cpu.x])
        [] OTHER -> Case(s)

\* the rest of nes_cpu_step after the bus write of its case: the flag
\* updates that follow the write, then the cycle accounting
StepFinish(s, cycles, carry, zn) ==
  LET s1 == IF carry >= 0 THEN nes_cpu_set_flag(s, FLAG_CARRY, carry) ELSE s
      s2 == IF zn >= 0 THEN nes_cpu_update_zn(s1, zn) ELSE s1
      total == cycles + s2.cpu.stall_cycles
  IN  [sys |-> [s2 EXCEPT !.cpu.cycle_count = U32(@ + total),
                          !.cpu.stall_cycles = 0],
       total |-> U8(total)]

\* The body of nes_cpu_step up to its return or up to a write to
\* OAM_DMA_ADDR.  dma = -1: the call returned total.  dma >= 0: the call is
\* inside nes_sys_oam_dma(page); cycles, carry and zn are what StepFinish
\* needs once that returns.  fetched tells whether an opcode was fetched.
Stepped(s, total, fetched) ==
  [sys |-> s, dma |-> -1, total |-> total, fetched |-> fetched,
   cycles |-> 0, carry |-> -1, zn |-> -1]

\* an NMI entry that leaves pending_nmi set
CpuServiceNmiKeepsLatch(s) ==
  LET s1 == Call("EnterVector", << s, Or(s.cpu.p, FLAG_UNUSED), NES_VECTOR_NMI >>)
  IN  Stepped([s1 EXCEPT !.cpu.cycle_count = U32(@ + 7)], 7, FALSE)

\* nes_cpu_step with pending_nmi set
CpuServiceNmi(s) ==
  LET s1 == Call("EnterVector", << [s EXCEPT !.cpu.pending_nmi = 0],
                        Or(s.cpu.p, FLAG_UNUSED), NES_VECTOR_NMI >>)
  IN  Stepped([s1 EXCEPT !.cpu.cycle_count = U32(@ + 7)], 7, FALSE)

\* an IRQ entry that pushes the status as BRK does
CpuServiceIrqPushesBreak(s) ==
  LET s1 == Call("EnterVector", << [s EXCEPT !.cpu.pending_irq = 0],
                        Or(s.cpu.p, FLAG_BREAK + FLAG_UNUSED), NES_VECTOR_IRQ_BRK >>)
  IN  Stepped([s1 EXCEPT !.cpu.cycle_count = U32(@ + 7)], 7, FALSE)

\* nes_cpu_step with pending_irq set and I clear
CpuServiceIrq(s) ==
  LET s1 == Call("EnterVector", << [s EXCEPT !.cpu.pending_irq = 0],
                        Or(s.cpu.p, FLAG_UNUSED), NES_VECTOR_IRQ_BRK >>)
  IN  Stepped([s1 EXCEPT !.cpu.cycle_count = U32(@ + 7)], 7, FALSE)

CpuStepBody(s) ==
  IF s.cpu.stall_cycles > 0 THEN
    Stepped([s EXCEPT !.cpu.stall_cycles = @ - 1,
                      !.cpu.cycle_count = U32(@ + 1)], 1, FALSE)
  ELSE IF s.cpu.pending_nmi # 0 THEN CpuServiceNmi(s)
  ELSE IF s.cpu.pending_irq # 0 /\ nes_cpu_get_flag(s, FLAG_INTERRUPT) = 0
  THEN CpuServiceIrq(s)
  ELSE
    LET f == Call("FetchPc", << s >>)
        opcode == f.val
        cycles == OpCycles(opcode)
        c == Call("Execute", << f.sys, opcode >>)
    IN  IF c.dma >= 0 THEN
          [sys |-> c.sys, dma |-> c.dma, total |-> 0, fetched |-> TRUE,
           cycles |-> cycles, carry |-> c.carry, zn |-> c.zn]
        ELSE
          LET fin == Call("StepFinish", << c.sys, cycles, c.carry, c.zn >>)
          IN  Stepped(fin.sys, fin.total, TRUE)

nes_cpu_trigger_nmi(s) == [s EXCEPT !.cpu.pending_nmi = 1]

nes_cpu_trigger_irq(s) == [s EXCEPT !.cpu.pending_irq = 1]

\* a reset that leaves the NMI latch as it was
CpuResetKeepsPendingNmi(s) ==
  LET s1 == [s EXCEPT !.cpu.p = FLAG_UNUSED + FLAG_INTERRUPT,
                      !.cpu.sp = 253,
                      !.cpu.stall_cycles = 0,
                      !.cpu.cycle_count = 0,
                      !.cpu.pending_irq = 0]
      lo == bus_read(s1, NES_VECTOR_RESET)
      hi == bus_read(lo.sys, NES_VECTOR_RESET + 1)
  IN  [hi.sys EXCEPT !.cpu.pc = lo.val + hi.val * 256]

\* nes_cpu_reset with the bus attached
nes_cpu_reset(s) ==
  LET s1 == [s EXCEPT !.cpu.p = FLAG_UNUSED + FLAG_INTERRUPT,
                      !.cpu.sp = 253,
                      !.cpu.stall_cycles = 0,
                      !.cpu.cycle_count = 0,
                      !.cpu.pending_nmi = 0,
                      !.cpu.pending_irq = 0]
      lo == bus_read(s1, NES_VECTOR_RESET)
      hi == bus_read(lo.sys, NES_VECTOR_RESET + 1)
  IN  [hi.sys EXCEPT !.cpu.pc = lo.val + hi.val * 256]

----------------------------------------------------------------------------
(* ppu/ppu.c: the dot clock.                                                *)

increment_x(s) ==
  IF s.ppu.v % 32 = 31
  THEN [s EXCEPT !.ppu.v = Xor(And(@, 65504), 1024)]
  ELSE [s EXCEPT !.ppu.v = U16(@ + 1)]

increment_y(s) ==
  IF And(s.ppu.v, 28672) # 28672 THEN [s EXCEPT !.ppu.v = U16(@ + 4096)]
  ELSE
    LET v0 == And(s.ppu.v, 36863)
        y == Shr(And(v0, 992), 5)
        v1 == IF y = 29 THEN Xor(v0, 2048) ELSE v0
        y1 == IF y = 29 \/ y = 31 THEN 0 ELSE y + 1
    IN  [s EXCEPT !.ppu.v = Or(And(v1, 64543), y1 * 32)]

\* the shifters are uint8_t: (shift & 0xFF00) is 0 and (tile >> 8) is 0
load_background_shifters(s) ==
  [s EXCEPT !.ppu.background_shift_lo = s.ppu.background_fetch_tile,
            !.ppu.background_shift_hi = 0,
            !.ppu.attribute_shift_lo = s.ppu.attribute_latch_lo,
            !.ppu.attribute_shift_hi = s.ppu.attribute_latch_hi]

AttrAddr(v) == Or(Or(Or(9152, And(v, 3072)), And(Shr(v, 4), 56)), And(Shr(v, 2), 7))

\* fetch_tile_data and the two pattern reads that follow it; the result is
\* truncated to the uint8_t background_fetch_tile
fetch_tile_data(s) ==
  LET v == s.ppu.v
      tile == Call("ppu_read_vram", << s, Or(8192, And(v, 4095)) >>)
      at == Call("ppu_read_vram", << tile.sys, AttrAddr(v) >>)
      a1 == IF Test(v, 64) THEN Shr(at.val, 2) ELSE at.val
      attr == (IF Test(v, 2) THEN Shr(a1, 2) ELSE a1) % 4
      latch_hi == IF attr >= 2 THEN 255 ELSE 0
      pattern_table == IF Test(s.ppu.ctrl, PPUCTRL_BG_ADDR) THEN 4096 ELSE 0
      addr_lo == U16(pattern_table + tile.val * 16 + (Shr(v, 12) % 8))
      lo == Call("ppu_read_vram", << at.sys, addr_lo >>)
      hi == Call("ppu_read_vram", << lo.sys, U16(addr_lo + 8) >>)
  IN  [hi.sys EXCEPT !.ppu.background_fetch_attr = IF attr % 2 = 1 THEN 255 ELSE 0,
                     !.ppu.attribute_latch_hi = latch_hi,
                     !.ppu.attribute_latch_lo = Not8(latch_hi),
                     !.ppu.background_fetch_tile = lo.val]

SpriteHeight(s) == IF Test(s.ppu.ctrl, PPUCTRL_SP_SIZE) THEN 16 ELSE 8

SpriteAt(s, i) ==
  [y |-> At(s.ppu.oam, i * 4), tile |-> At(s.ppu.oam, i * 4 + 1),
   attr |-> At(s.ppu.oam, i * 4 + 2), x |-> At(s.ppu.oam, i * 4 + 3)]

evaluate_sprites(s) ==
  LET inrange(i) == LET line == s.ppu.scanline - At(s.ppu.oam, i * 4)
                    IN  line >= 0 /\ line < SpriteHeight(s)
      hits == { i \in 0..(PPU_SPRITE_COUNT - 1) : inrange(i) }
      rank(i) == Cardinality({ j \in hits : j < i })
      kept == { i \in hits : rank(i) < 8 }
      count == Cardinality(kept)
      slot(k) == SpriteAt(s, CHOOSE i \in kept : rank(i) = k)
  IN  [s EXCEPT !.ppu.sprite_count = count,
                !.ppu.sprites = [k \in (DOMAIN @) \cup (0..(count - 1)) |->
                                   IF k < count THEN slot(k) ELSE @[k]]]

\* the sprite loop of the visible-scanline pixel, from sprite i on
SpriteLoop(s, i, x, pixel, sprite_pixel) ==
  IF i >= s.ppu.sprite_count
  THEN [sys |-> s, pixel |-> pixel, sprite_pixel |-> sprite_pixel]
  ELSE
    LET sprite == s.ppu.sprites[i]
        line == s.ppu.scanline - sprite.y
    IN  IF line >= 0 /\ line < SpriteHeight(s) /\ x >= sprite.x /\ x < sprite.x + 8
        THEN
          LET pattern_table == IF Test(s.ppu.ctrl, PPUCTRL_SP_ADDR) THEN 4096 ELSE 0
              column == IF Test(sprite.attr, SP_ATTR_FLIP_H)
                        THEN 7 - (x - sprite.x) ELSE x - sprite.x
              addr == U16(pattern_table + sprite.tile * 16 + line)
              lo == Call("ppu_read_vram", << s, addr >>)
              hi == Call("ppu_read_vram", << lo.sys, U16(addr + 8) >>)
              sp == (Shr(lo.val, column) % 2) + 2 * (Shr(hi.val, column) % 2)
              s1 == IF i = 0 /\ sp # 0 /\ pixel # 0
                    THEN [hi.sys EXCEPT !.ppu.status = Or(@, PPUSTATUS_SP0_HIT)]
                    ELSE hi.sys
          IN  IF sp # 0 THEN
                LET sp1 == Or(sp, (sprite.attr % 4) * 4)
                IN  IF Test(sprite.attr, SP_ATTR_PRIORITY)
                    THEN Call("SpriteLoop", << s1, i + 1, x, 0, sp1 >>)
                    ELSE [sys |-> s1, pixel |-> pixel, sprite_pixel |-> sp1]
              ELSE Call("SpriteLoop", << s1, i + 1, x, pixel, 0 >>)
        ELSE Call("SpriteLoop", << s, i + 1, x, pixel, sprite_pixel >>)

\* lines 447-521: one pixel of a visible scanline into g_frame_buffer
RenderPixel(s) ==
  LET x == s.ppu.cycle - 1
      mask == s.ppu.mask
      hidden == ~Test(mask, PPUMASK_SHOW_BGR8) /\ x < 8
      shift == 7 - ((x + s.ppu.x) % 8)
      p0 == (Shr(s.ppu.background_shift_lo, shift) % 2)
            + 2 * (Shr(s.ppu.background_shift_hi, shift) % 2)
      withattr == ~hidden /\ p0 # 0 /\ x % 4 = 0
      at == IF withattr THEN Call("ppu_read_vram", << s, AttrAddr(s.ppu.v) >>) ELSE Ret(s, 0)
      a1 == IF Shr(x, 1) % 2 = 1 THEN Shr(at.val, 2) ELSE at.val
      a2 == IF Shr(s.ppu.scanline, 1) % 2 = 1 THEN Shr(a1, 2) ELSE a1
      bg == IF hidden THEN 0
            ELSE IF withattr THEN U8(Or(p0, (a2 % 4) * 4)) ELSE p0
      sp == IF Test(mask, PPUMASK_SHOW_SPR) /\ (~Test(mask, PPUMASK_SHOW_SPR8) \/ x >= 8)
            THEN Call("SpriteLoop", << at.sys, 0, x, bg, 0 >>)
            ELSE [sys |-> at.sys, pixel |-> bg, sprite_pixel |-> 0]
      pixel == IF sp.sprite_pixel # 0 THEN Or(sp.sprite_pixel, 16)
               ELSE IF sp.pixel # 0 THEN Or(sp.pixel, 32) ELSE 0
  IN  [sp.sys EXCEPT !.g_frame_buffer = Put(@, s.ppu.scanline * PPU_WIDTH + x, pixel)]

\* the tile pipeline shared by the visible and pre-render branches
FetchPipeline(s) ==
  LET c == s.ppu.cycle
  IN  IF (c >= 1 /\ c <= 256) \/ (c >= 321 /\ c <= 336) THEN
        IF c % 8 = 1 THEN load_background_shifters(s)
        ELSE IF c % 8 = 0 THEN Call("fetch_tile_data", << Call("increment_x", << s >>) >>)
        ELSE s
      ELSE s

\* shifts, increment_y at dot 256 and the horizontal reset at dot 257
ShiftAndScroll(s) ==
  LET c == s.ppu.cycle
      s1 == IF c >= 1 /\ c <= 256
            THEN [s EXCEPT !.ppu.background_shift_lo = Shl8(@, 1),
                           !.ppu.background_shift_hi = Shl8(@, 1),
                           !.ppu.attribute_shift_lo = Shl8(@, 1),
                           !.ppu.attribute_shift_hi = Shl8(@, 1)]
            ELSE s
      s2 == IF c = 256 THEN Call("increment_y", << s1 >>) ELSE s1
  IN  IF c = 257
      THEN [s2 EXCEPT !.ppu.v = Or(And(@, 64480), And(s2.ppu.t, 1055))]
      ELSE s2

PpuVisible(s) ==
  LET c == s.ppu.cycle
      s1 == IF c = 1 THEN Call("evaluate_sprites", << s >>) ELSE s
      s2 == Call("FetchPipeline", << s1 >>)
      s3 == IF c >= 1 /\ c <= 256 /\ Test(s2.ppu.mask, PPUMASK_SHOW_BGR)
            THEN Call("RenderPixel", << s2 >>) ELSE s2
  IN  Call("ShiftAndScroll", << s3 >>)

PpuPreRender(s) ==
  LET c == s.ppu.cycle
      s1 == IF c = 1
            THEN [s EXCEPT !.ppu.status =
                    And(@, 255 - PPUSTATUS_VBLANK - PPUSTATUS_SP0_HIT - PPUSTATUS_SP_OVF)]
            ELSE s
      s2 == IF c = 1 THEN Call("evaluate_sprites", << s1 >>) ELSE s1
      s3 == Call("FetchPipeline", << s2 >>)
      s4 == IF c >= 280 /\ c <= 304 /\ ~(s3.ppu.odd_frame # 0 /\ c = 304)
            THEN [s3 EXCEPT !.ppu.v = Or(And(@, 33823), And(s3.ppu.t, 31712))]
            ELSE s3
  IN  Call("ShiftAndScroll", << s4 >>)

\* lines 611-623
\* the last dot of a scanline
PPU_SCANLINES == 262

PPU_LAST_CYCLE == 340

PpuAdvance(s) ==
  IF s.ppu.cycle + 1 > PPU_LAST_CYCLE THEN
    IF s.ppu.scanline + 1 > 261 THEN
      [s EXCEPT !.ppu.cycle = 0, !.ppu.scanline = 0,
                !.ppu.frame = U32(@ + 1),
                !.ppu.odd_frame = IF @ = 0 THEN 1 ELSE 0]
    ELSE [s EXCEPT !.ppu.cycle = 0, !.ppu.scanline = @ + 1]
  ELSE [s EXCEPT !.ppu.cycle = @ + 1]

\* nes_ppu_step: the state after the dot and the value returned
nes_ppu_step(s) ==
  LET line == s.ppu.scanline
      c == s.ppu.cycle
      vbl == line = 241 /\ c = 1
      s1 == IF line < 240 THEN Call("PpuVisible", << s >>)
            ELSE IF line = 240 THEN s
            ELSE IF line <= 260 THEN
              IF vbl
              THEN [s EXCEPT !.ppu.status =
                      And(Or(@, PPUSTATUS_VBLANK),
                          255 - PPUSTATUS_SP0_HIT - PPUSTATUS_SP_OVF)]
              ELSE s
            ELSE IF line = 261 THEN Call("PpuPreRender", << s >>)
            ELSE s
  IN  Ret(PpuAdvance(s1), IF vbl /\ Test(s.ppu.ctrl, PPUCTRL_NMI) THEN 1 ELSE 0)

\* nes_ppu_init: memset 0, palette[i] = i, VBlank set, pre-render line
nes_ppu_init ==
  [ ctrl |-> 0, mask |-> 0, status |-> PPUSTATUS_VBLANK, oam_addr |-> 0,
    data_buffer |-> 0, v |-> 0, t |-> 0, x |-> 0, w |-> 0,
    vram |-> Empty, palette |-> [i \in 1..31 |-> i], oam |-> Empty,
    scanline |-> 261, cycle |-> 0, frame |-> 0, odd_frame |-> 0,
    sprite_count |-> 0, sprites |-> Empty,
    background_shift_lo |-> 0, background_shift_hi |-> 0,
    attribute_shift_lo |-> 0, attribute_shift_hi |-> 0,
    attribute_latch_lo |-> 0, attribute_latch_hi |-> 0,
    background_fetch_tile |-> 0, background_fetch_attr |-> 0 ]

nes_ppu_reset(ppu) ==
  [ppu EXCEPT !.ctrl = 0, !.mask = 0, !.oam_addr = 0, !.w = 0, !.data_buffer = 0,
              !.status = PPUSTATUS_VBLANK, !.scanline = 261, !.cycle = 0,
              !.frame = 0, !.odd_frame = 0, !.sprite_count = 0]

----------------------------------------------------------------------------
(* Calls run to their return.  A log of what happened inside the call is   *)
(* threaded through: it is history, and no operator reads it to decide     *)
(* what the emulator does.                                                 *)

\* how many activations of nes_cpu_step the host's stack holds before it is
\* exhausted
MaxNest == 2

Log0 ==
  [ fetches |-> 0,     \* opcodes fetched
    steps |-> 0,       \* calls of nes_cpu_step
    nest |-> 0,        \* most activations of nes_cpu_step alive at once
    dma |-> << >>,     \* completed nes_sys_oam_dma calls
    nmi |-> << >>,     \* NMI entries: the machine before and after, and
                       \* whether the step fetched an opcode
    due |-> 0,         \* dots stepped at (241,1) with PPUCTRL_NMI set
    latches |-> 0,     \* calls of nes_cpu_trigger_nmi
    unserved |-> 0,    \* latches not taken by the very next nes_cpu_step
    dots |-> 0,        \* calls of nes_ppu_step
    fastest |-> 0,     \* fewest CPU cycles run after one dot (0: no dot yet)
    hits |-> << >>,    \* the machine before each dot that set PPUSTATUS_SP0_HIT
    clears |-> << >> ] \* where the PPU stood at each turn that cleared it,
                       \* and whether the dot or the CPU cleared it

RECURSIVE Repeat(_, _, _)
\* a loop body run n times on a loop state st (a record); the first half of
\* the turns is evaluated before the second half starts
Repeat(Body(_), st, n) ==
  IF n = 0 THEN st
  ELSE IF n = 1 THEN Body(st)
  ELSE LET half == Repeat(Body, st, n \div 2)
       IN  IF DOMAIN half = {} THEN half
           ELSE Repeat(Body, half, n - (n \div 2))

Running(s) == s.host = "running"


\* one turn of the while loop of nes_cpu_execute_cycles, if it is still on
ExecuteTurn(st) ==
  IF st.executed >= st.cycles \/ ~Running(st.sys) THEN st
  ELSE LET r == Call("nes_cpu_step", << st.sys, st.log, st.depth >>)
       IN  [st EXCEPT !.sys = r.sys, !.log = r.log,
                      !.executed = U32(@ + r.total)]

\* every nes_cpu_step returns at least 1, so the loop makes at most
\* `cycles` turns
nes_cpu_execute_cycles(s, log, cycles, depth) ==
  LET st == Repeat(ExecuteTurn,
                   [sys |-> s, log |-> log, executed |-> 0,
                    cycles |-> cycles, depth |-> depth],
                   cycles)
  IN  [sys |-> st.sys, log |-> st.log]

nes_sys_oam_dma(s, log, page, depth) ==
  LET e == Call("nes_cpu_execute_cycles", << s, log, 514, depth >>)
      done == Call("nes_ppu_oam_dma", << e.sys, page >>)
      report == [ page |-> page,
                  fetches_at_write |-> log.fetches,
                  fetches_at_copy |-> e.log.fetches,
                  cycles_at_write |-> s.cpu.cycle_count,
                  cycles_at_copy |-> e.sys.cpu.cycle_count,
                  oam_at_write |-> Call("nes_ppu_oam_dma", << s, page >>).ppu.oam,
                  oam |-> done.ppu.oam ]
  IN  IF Running(e.sys)
      THEN [sys |-> done, log |-> [e.log EXCEPT !.dma = Append(@, report)]]
      ELSE e

\* nes_cpu_step at nesting depth `depth` (the number of activations of
\* nes_cpu_step below this one)
nes_cpu_step(s, log, depth) ==
  LET r == Call("CpuStepBody", << s >>)
      entry == s.cpu.stall_cycles = 0 /\ s.cpu.pending_nmi # 0
      log1 == [log EXCEPT !.steps = @ + 1,
                          !.fetches = IF r.fetched THEN @ + 1 ELSE @,
                          !.nest = IF depth + 1 > @ THEN depth + 1 ELSE @,
                          !.nmi = IF entry
                                  THEN Append(@, [before |-> s, after |-> r.sys,
                                                  fetched |-> r.fetched])
                                  ELSE @]
  IN  IF ~Running(r.sys) THEN [sys |-> r.sys, log |-> log1, total |-> 0]
      ELSE IF r.dma < 0 THEN [sys |-> r.sys, log |-> log1, total |-> r.total]
      ELSE IF depth + 1 >= MaxNest
      THEN [sys |-> [r.sys EXCEPT !.host = "overflow"], log |-> log1, total |-> 0]
      ELSE
        LET d == Call("nes_sys_oam_dma", << r.sys, log1, r.dma, depth + 1 >>)
            fin == Call("StepFinish", << d.sys, r.cycles, r.carry, r.zn >>)
        IN  IF Running(d.sys)
            THEN [sys |-> fin.sys, log |-> d.log, total |-> fin.total]
            ELSE [sys |-> d.sys, log |-> d.log, total |-> 0]

\* one turn of the for loop of nes_sys_step_frame
FrameTurn(st) ==
  IF ~Running(st.sys) THEN st
  ELSE
    LET s == st.sys
        p == Call("nes_ppu_step", << s >>)
        vblank == p.val # 0 /\ Test(p.sys.ppu.ctrl, PPUCTRL_NMI)
        s1 == IF vblank THEN nes_cpu_trigger_nmi(p.sys) ELSE p.sys
        e == Call("nes_cpu_execute_cycles", << s1, st.log, NES_CPU_PPU_RATIO, 0 >>)
        ran == e.sys.cpu.cycle_count - s1.cpu.cycle_count
        isdue == s.ppu.scanline = 241 /\ s.ppu.cycle = 1
                 /\ Test(s.ppu.ctrl, PPUCTRL_NMI)
        served == Len(e.log.nmi) > Len(st.log.nmi)
                  /\ e.log.nmi[Len(st.log.nmi) + 1].before = s1
        hit(m) == Test(m.ppu.status, PPUSTATUS_SP0_HIT)
        at(by) == [scanline |-> s.ppu.scanline, cycle |-> s.ppu.cycle, by |-> by]
    IN  [sys |-> e.sys,
         log |-> [e.log EXCEPT
                    !.dots = @ + 1,
                    !.hits = IF ~hit(s) /\ hit(p.sys)
                             THEN Append(@, [before |-> s]) ELSE @,
                    !.clears = IF hit(s) /\ ~hit(p.sys) THEN Append(@, at("ppu"))
                               ELSE IF hit(s1) /\ Running(e.sys) /\ ~hit(e.sys)
                               THEN Append(@, at("cpu")) ELSE @,
                    !.due = IF isdue THEN @ + 1 ELSE @,
                    !.latches = IF vblank THEN @ + 1 ELSE @,
                    !.unserved = IF vblank /\ ~served THEN @ + 1 ELSE @,
                    !.fastest = IF Running(e.sys) /\ (@ = 0 \/ ran < @)
                                THEN ran ELSE @]]

ApuTurn(apu) == Call("nes_apu_step", << apu >>)

nes_apu_execute_cycles(apu, cycles) == Repeat(ApuTurn, apu, cycles)

----------------------------------------------------------------------------
(* Construction: nes_sys_init, nes_sys_load_rom and the reset inside it.   *)

nes_cpu_init ==
  [ pc |-> 0, a |-> 0, x |-> 0, y |-> 0, sp |-> 0, p |-> 0, cycle_count |-> 0,
    pending_nmi |-> 0, pending_irq |-> 0, stall_cycles |-> 0 ]

\* parse_header and nes_cartridge_load_memory on a well-formed image
nes_cartridge_load(image) ==
  [ image |-> image,
    info |-> [ mapper |-> image.mapper,
               prg_rom_banks |-> image.prg_rom_banks,
               prg_rom_size |-> image.prg_rom_banks * NES_PRG_ROM_SIZE,
               chr_rom_banks |-> image.chr_rom_banks,
               chr_rom_size |-> image.chr_rom_banks * NES_CHR_ROM_SIZE,
               has_chrram |-> IF image.chr_rom_banks = 0 THEN 1 ELSE 0,
               mirroring |-> IF image.flags6_mirror # 0 THEN MIRROR_VERTICAL
                             ELSE MIRROR_HORIZONTAL ],
    prg_rom_size |-> 0,
    chr_rom_size |-> IF image.chr_rom_banks = 0 THEN NES_CHR_ROM_SIZE ELSE 0,
    chr_alloc |-> IF image.chr_rom_banks = 0 THEN NES_CHR_ROM_SIZE
                  ELSE image.chr_rom_banks * NES_CHR_ROM_SIZE,
    chr_rom |-> IF image.chr_rom_banks > 0 /\ "chr" \in DOMAIN image
                THEN image.chr ELSE Empty,
    prg_ram_size |-> PRG_RAM_SIZE,
    prg_ram |-> Empty ]

\* memset(cart, 0, sizeof(nes_cartridge_t))
nes_cartridge_init ==
  [ image |-> [mapper |-> 0, prg_rom_banks |-> 0, chr_rom_banks |-> 0,
               flags6_mirror |-> 0, prg |-> Empty],
    info |-> [mapper |-> 0, prg_rom_banks |-> 0, prg_rom_size |-> 0,
              chr_rom_banks |-> 0, chr_rom_size |-> 0, has_chrram |-> 0,
              mirroring |-> MIRROR_HORIZONTAL],
    prg_rom_size |-> 0, chr_rom_size |-> 0, chr_alloc |-> 0, chr_rom |-> Empty,
    prg_ram_size |-> 0, prg_ram |-> Empty ]

\* The buffers of the cartridge on the host's heap: the four pointers of
\* nes_cartridge_t that nes_cartridge_free releases, each NULL or the block
\* it points to, the blocks malloc has returned and the number of calls of
\* free made on each.  nes_cartridge_init: memset 0.
cartridge_heap_init ==
  [ prg_rom |-> "NULL", chr_rom |-> "NULL", info_prg_rom |-> "NULL",
    info_chr_rom |-> "NULL", allocated |-> {},
    frees |-> [b \in {"prg", "chr"} |-> 0] ]

\* if (cart->p) { free(cart->p); cart->p = NULL; }
FreePointer(h, p) ==
  IF h[p] = "NULL" THEN h
  ELSE [h EXCEPT !.frees[h[p]] = @ + 1, ![p] = "NULL"]

nes_cartridge_free(h) ==
  FreePointer(FreePointer(FreePointer(FreePointer(h, "prg_rom"), "chr_rom"),
                          "info_prg_rom"), "info_chr_rom")

\* the allocations of parse_header (they succeed) and the pointers it sets
\* in info
parse_header_alloc(h) ==
  [h EXCEPT !.prg_rom = "prg", !.chr_rom = "chr", !.info_prg_rom = "prg",
            !.info_chr_rom = "chr", !.allocated = {"prg", "chr"}]

\* a block freed twice: free() aborts the process when it detects it, and
\* returns when it does not
FreedTwice(h) == \E b \in h.allocated : h.frees[b] > 1

\* nes_sys_free: the cartridge's buffers are released and the machine is
\* no more
nes_sys_free(s, detected) ==
  LET h == nes_cartridge_free(s.heap)
  IN  [s EXCEPT !.heap = h,
                !.host = IF FreedTwice(h) /\ detected THEN "aborted" ELSE "exited"]

\* main from nes_sys_load_rom to the start of its loop: a failed load is
\* followed by nes_sys_free and the end of the process
main_load(s, r, h, detected) ==
  LET loaded == [r.sys EXCEPT !.heap = h]
  IN  [ sys |-> IF ~Running(loaded) THEN loaded
                ELSE IF FreedTwice(h) /\ detected
                THEN [loaded EXCEPT !.host = "aborted"]
                ELSE IF r.val # 0 THEN nes_sys_free(loaded, detected)
                ELSE loaded,
        result |-> r.result, val |-> r.val ]

nes_sys_init(build, wild) ==
  [ host |-> "running", build |-> build, wild |-> wild,
    cpu |-> nes_cpu_init, ppu |-> nes_ppu_init, apu |-> nes_apu_init,
    input |-> nes_input_init, ram |-> Empty,
    cartridge |-> nes_cartridge_init,
    mapper |-> [number |-> 0, state |-> Empty], ctx |-> ctx_static,
    mmc3 |-> mapper_4_init, heap |-> cartridge_heap_init,
    g_mirror_mode |-> MIRROR_HORIZONTAL, g_frame_buffer |-> Empty,
    frame_complete |-> 0, running |-> 1, paused |-> 0 ]

nes_sys_reset(s) ==
  LET s1 == Call("nes_cpu_reset", << s >>)
  IN  [s1 EXCEPT !.ppu = nes_ppu_reset(@),
                 !.apu = nes_apu_reset(@),
                 !.input = nes_input_reset(@)]

nes_mapper_create(s) ==
  IF s.cartridge.info.mapper = 1
  THEN [s EXCEPT !.mapper.number = 1, !.ctx = mapper_1_init]
  ELSE IF s.cartridge.info.mapper = 4
  THEN [s EXCEPT !.mapper.number = 4, !.mmc3 = mapper_4_init]
  ELSE [s EXCEPT !.mapper.number = 0]

nes_sys_load_rom(s, image) ==
  LET s1 == [s EXCEPT !.cartridge = nes_cartridge_load(image)]
      s2 == nes_mapper_create(s1)
      s3 == nes_ppu_set_mirror_mode(s2, s2.cartridge.info.mirroring)
  IN  Call("nes_sys_reset", << s3 >>)

\* cartridge/rom.h: the results of loading
NES_ROM_OK == 0

NES_ROM_ERROR_FILE_NOT_FOUND == 1

NES_ROM_ERROR_INVALID_HEADER == 2

NES_ROM_ERROR_UNSUPPORTED_MAPPER == 3

NES_ROM_ERROR_MEMORY == 4

NES_ROM_ERROR_TRUNCATED == 5

NES_ROM_HEADER_SIZE == 16

NES_TRAINER_SIZE == 512

FLAGS6_MIRROR_MASK == 1

FLAGS6_TRAINER == 4

FLAGS7_NES_2_0 == 12

\* "NES" followed by $1A
NES_MAGIC == << 78, 69, 83, 26 >>

\* A file is its length in bytes, the fields of its first 16 bytes and the
\* PRG and CHR bytes that follow them; found says whether fopen opens it.
\* parse_header: the result and what it leaves in cart->info (allocations
\* succeed)
parse_header(header) ==
  IF header.magic # NES_MAGIC
  THEN [result |-> NES_ROM_ERROR_INVALID_HEADER, mapper |-> 0, prg_rom_size |-> 0,
        chr_rom_size |-> 0, has_trainer |-> 0, image |-> nes_cartridge_init.image]
  ELSE
    LET mapper == (header.flags7 \div 16) * 16 + (header.flags6 \div 16)
        is_nes_2_0 == And(header.flags7, FLAGS7_NES_2_0) = FLAGS7_NES_2_0
        prg_rom_banks == header.prg_rom_size
        chr_rom_banks == IF is_nes_2_0 THEN header.chr_rom_size % 16
                         ELSE header.chr_rom_size
    IN  [result |-> NES_ROM_OK, mapper |-> mapper,
         prg_rom_size |-> prg_rom_banks * NES_PRG_ROM_SIZE,
         chr_rom_size |-> chr_rom_banks * NES_CHR_ROM_SIZE,
         has_trainer |-> IF Test(header.flags6, FLAGS6_TRAINER) THEN 1 ELSE 0,
         image |-> [mapper |-> mapper, prg_rom_banks |-> prg_rom_banks,
                    chr_rom_banks |-> chr_rom_banks,
                    flags6_mirror |-> And(header.flags6, FLAGS6_MIRROR_MASK),
                    prg |-> header.prg, chr |-> header.chr]]

\* nes_cartridge_load_memory on the bytes of a file: the result and, when it
\* is NES_ROM_OK, the image copied out of the file
nes_cartridge_load_memory(file) ==
  IF file.size < NES_ROM_HEADER_SIZE
  THEN [result |-> NES_ROM_ERROR_TRUNCATED, image |-> nes_cartridge_init.image]
  ELSE
    LET h == parse_header(file)
        rom_size == NES_ROM_HEADER_SIZE + h.prg_rom_size + h.chr_rom_size
                    + (IF h.has_trainer # 0 THEN NES_TRAINER_SIZE ELSE 0)
    IN  IF h.result # NES_ROM_OK
        THEN [result |-> h.result, image |-> nes_cartridge_init.image]
        ELSE IF file.size < rom_size
        THEN [result |-> NES_ROM_ERROR_TRUNCATED, image |-> nes_cartridge_init.image]
        ELSE [result |-> NES_ROM_OK, image |-> h.image]

\* nes_cartridge_load on a file name (the whole file is read)
nes_cartridge_load_file(file) ==
  IF ~file.found
  THEN [result |-> NES_ROM_ERROR_FILE_NOT_FOUND, image |-> nes_cartridge_init.image]
  ELSE IF file.size < NES_ROM_HEADER_SIZE
  THEN [result |-> NES_ROM_ERROR_TRUNCATED, image |-> nes_cartridge_init.image]
  ELSE nes_cartridge_load_memory(file)

\* what nes_cartridge_load on a file does to the buffers
nes_cartridge_load_heap(h, file) ==
  LET c == nes_cartridge_load_file(file)
      parsed == file.found /\ file.size >= NES_ROM_HEADER_SIZE
                /\ parse_header(file).result = NES_ROM_OK
  IN  IF ~parsed THEN h
      ELSE IF c.result = NES_ROM_ERROR_TRUNCATED
      THEN nes_cartridge_free(parse_header_alloc(h))
      ELSE parse_header_alloc(h)

\* the mapper numbers the switch of nes_mapper_create has a case for
SupportedMappers == {0, 1, 2, 3, 4, 7}

\* nes_sys_load_rom on a file name: the machine, the result of
\* nes_cartridge_load and the value returned
nes_sys_load_rom_file(s, file) ==
  LET c == nes_cartridge_load_file(file)
  IN  IF c.result # NES_ROM_OK THEN [sys |-> s, result |-> c.result, val |-> -1]
      ELSE IF c.image.mapper \notin SupportedMappers
      THEN [sys |-> [s EXCEPT !.cartridge = nes_cartridge_load(c.image)],
            result |-> c.result, val |-> -1]
      ELSE [sys |-> Call("nes_sys_load_rom", << s, c.image >>),
            result |-> c.result, val |-> 0]

APU_SAMPLE_RATE == 44100

APU_CPU_CLOCK_NTSC == 1789773

\* nes_apu_generate_samples: sample i is taken after the APU has run from
\* cycle (uint32_t)(i * cps) to cycle (uint32_t)((i + 1) * cps) of the call,
\* cps being the float 1789773 / 44100; for the 40 samples a call makes at
\* most the float products round down to the same integers as the exact
\* quotients.  The result is the APU and the number of samples.
nes_apu_generate_samples(apu, max_samples) ==
  LET most == APU_CPU_CLOCK_NTSC \div APU_SAMPLE_RATE
      samples == IF most > max_samples THEN max_samples ELSE most
      cycles == IF samples > 0
                THEN (samples * APU_CPU_CLOCK_NTSC) \div APU_SAMPLE_RATE ELSE 0
  IN  [apu |-> Call("nes_apu_execute_cycles", << apu, cycles >>), val |-> samples]

nes_sys_get_audio(s, max_samples) ==
  LET r == nes_apu_generate_samples(s.apu, max_samples)
  IN  Ret([s EXCEPT !.apu = r.apu], r.val)

\* nes_sys_cpu_read called by the host
HostRead(s, addr) ==
  LET r == bus_read(s, addr)
  IN  [sys |-> r.sys, val |-> r.val, log |-> Log0]

\* nes_sys_cpu_write called by the host: the write and, at OAM_DMA_ADDR, the
\* transfer it starts
HostWrite(s, addr, val) ==
  LET w == bus_write(s, addr, val)
      d == IF w.dma >= 0
           THEN Call("nes_sys_oam_dma", << w.sys, Log0, w.dma, 0 >>)
           ELSE [sys |-> w.sys, log |-> Log0]
  IN  [sys |-> d.sys, val |-> 0, log |-> d.log]


\* nes_cpu_step called by the host
HostStep(s) ==
  LET r == Call("nes_cpu_step", << s, Log0, 0 >>)
  IN  [sys |-> r.sys, val |-> r.total, log |-> r.log]

\* F1: nes_sys_reset called by the host
HostReset(s) == [sys |-> Call("nes_sys_reset", << s >>), val |-> 0, log |-> Log0]
\* a turn of the for loop of nes_sys_step_frame unless the scanline has
\* ended or the loop is over
ScanlineTurn(st) ==
  IF st.done THEN st
  ELSE LET t == Call("FrameTurn", << [sys |-> st.sys, log |-> st.log] >>)
       IN  [sys |-> t.sys, log |-> t.log, i |-> st.i + 1,
            done |-> \/ ~Running(t.sys)
                     \/ t.sys.ppu.cycle = 0
                     \/ st.i + 1 >= NES_PPU_CYCLES_PER_FRAME]

\* at most n turns of the for loop, from turn i on, that stay on one scanline
FrameTurns(s, log, i, n) ==
  Repeat(ScanlineTurn, [sys |-> s, log |-> log, i |-> i, done |-> FALSE], n)

Call(fn, a) ==
  CASE fn = "nes_sys_cpu_read" -> nes_sys_cpu_read(a[1], a[2])
    [] fn = "FrameTurn" -> FrameTurn(a[1])
    [] fn = "FrameTurns" -> FrameTurns(a[1], a[2], a[3], a[4])
    [] fn = "HostRead" -> HostRead(a[1], a[2])
    [] fn = "HostWrite" -> HostWrite(a[1], a[2], a[3])
    [] fn = "HostStep" -> HostStep(a[1])
    [] fn = "HostReset" -> HostReset(a[1])
    [] fn = "nes_apu_execute_cycles" -> nes_apu_execute_cycles(a[1], a[2])
    [] fn = "nes_ppu_step" -> nes_ppu_step(a[1])
    [] fn = "nes_cpu_execute_cycles" -> nes_cpu_execute_cycles(a[1], a[2], a[3], a[4])
    [] fn = "nes_cpu_step" -> nes_cpu_step(a[1], a[2], a[3])
    [] fn = "CpuStepBody" -> CpuStepBody(a[1])
    [] fn = "FetchPc" -> FetchPc(a[1])
    [] fn = "Execute" -> Execute(a[1], a[2])
    [] fn = "get_effective_address" -> get_effective_address(a[1], a[2])
    [] fn = "read16" -> read16(a[1], a[2])
    [] fn = "StepFinish" -> StepFinish(a[1], a[2], a[3], a[4])
    [] fn = "nes_apu_step" -> nes_apu_step(a[1])
    [] fn = "Operand" -> Operand(a[1], a[2], a[3])
    [] fn = "load_byte" -> load_byte(a[1], a[2])
    [] fn = "store_byte" -> store_byte(a[1], a[2], a[3])
    [] fn = "nes_sys_cpu_write" -> nes_sys_cpu_write(a[1], a[2], a[3])
    [] fn = "Modify" -> Modify(a[1], a[2], a[3])
    [] fn = "ModifyA" -> ModifyA(a[1], a[2])
    [] fn = "nes_sys_oam_dma" -> nes_sys_oam_dma(a[1], a[2], a[3], a[4])
    [] fn = "PpuVisible" -> PpuVisible(a[1])
    [] fn = "PpuPreRender" -> PpuPreRender(a[1])
    [] fn = "RenderPixel" -> RenderPixel(a[1])
    [] fn = "fetch_tile_data" -> fetch_tile_data(a[1])
    [] fn = "FetchPipeline" -> FetchPipeline(a[1])
    [] fn = "SpriteLoop" -> SpriteLoop(a[1], a[2], a[3], a[4], a[5])
    [] fn = "ShiftAndScroll" -> ShiftAndScroll(a[1])
    [] fn = "EnterVector" -> EnterVector(a[1], a[2], a[3])
    [] fn = "ppu_read_vram" -> ppu_read_vram(a[1], a[2])
    [] fn = "ppu_write_vram" -> ppu_write_vram(a[1], a[2], a[3])
    [] fn = "nes_ppu_cpu_read" -> nes_ppu_cpu_read(a[1], a[2])
    [] fn = "nes_ppu_cpu_write" -> nes_ppu_cpu_write(a[1], a[2], a[3])
    [] fn = "nes_apu_cpu_write" -> nes_apu_cpu_write(a[1], a[2], a[3])
    [] fn = "mapper_cpu_read" -> mapper_cpu_read(a[1], a[2])
    [] fn = "mapper_cpu_write" -> mapper_cpu_write(a[1], a[2], a[3])
    [] fn = "nes_cpu_push" -> nes_cpu_push(a[1], a[2])
    [] fn = "nes_cpu_pop" -> nes_cpu_pop(a[1])
    [] fn = "do_adc" -> do_adc(a[1], a[2])
    [] fn = "do_sbc" -> do_sbc(a[1], a[2])
    [] fn = "nes_sys_get_audio" -> nes_sys_get_audio(a[1], a[2])
    [] fn = "nes_sys_load_rom_file" -> nes_sys_load_rom_file(a[1], a[2])
    [] fn = "nes_cartridge_load_heap" -> nes_cartridge_load_heap(a[1], a[2])
    [] fn = "nes_sys_free" -> nes_sys_free(a[1], a[2])
    [] fn = "main" ->
         main_load(a[1], Call("nes_sys_load_rom_file", << a[1], a[2] >>),
                   Call("nes_cartridge_load_heap", << a[1].heap, a[2] >>), a[3])
    [] fn = "nes_input_set_button" -> nes_input_set_button(a[1], a[2], a[3], a[4])
    [] fn = "do_branch" -> do_branch(a[1], a[2])
    [] fn = "compare" -> compare(a[1], a[2], a[3])
    [] fn = "evaluate_sprites" -> evaluate_sprites(a[1])
    [] fn = "increment_x" -> increment_x(a[1])
    [] fn = "increment_y" -> increment_y(a[1])
    [] fn = "nes_ppu_oam_dma" -> nes_ppu_oam_dma(a[1], a[2])
    [] fn = "nes_input_read" -> nes_input_read(a[1], a[2])
    [] fn = "nes_sys_reset" -> nes_sys_reset(a[1])
    [] fn = "nes_cpu_reset" -> nes_cpu_reset(a[1])
    [] fn = "write_ppu_scroll_x" -> write_ppu_scroll_x(a[1], a[2])
    [] fn = "write_ppu_scroll_y" -> write_ppu_scroll_y(a[1], a[2])
    [] fn = "write_ppu_addr" -> write_ppu_addr(a[1], a[2])
    [] fn = "nes_sys_ppu_read" -> nes_sys_ppu_read(a[1], a[2])
    [] fn = "nes_sys_ppu_write" -> nes_sys_ppu_write(a[1], a[2], a[3])
    [] fn = "nes_sys_load_rom" -> nes_sys_load_rom(a[1], a[2])

\* the machine the host has after nes_sys_init and nes_sys_load_rom
PowerOn(image, build, wild) ==
  Call("nes_sys_load_rom", << nes_sys_init(build, wild), image >>)

----------------------------------------------------------------------------
(* memory/bus.c: save states.                                              *)

\* what the fwrite calls of nes_sys_save_state put in the file
nes_sys_save_state(s) ==
  [ cpu |-> s.cpu, ppu |-> s.ppu, apu |-> s.apu, input |-> s.input,
    ram |-> s.ram, mapper_state |-> s.mapper.state ]

\* what the fread calls of nes_sys_load_state overwrite
nes_sys_load_state(s, file) ==
  [s EXCEPT !.cpu = file.cpu, !.ppu = file.ppu, !.apu = file.apu,
            !.input = file.input, !.ram = file.ram,
            !.mapper.state = file.mapper_state]

\* platform/platform.c: the Escape key
nes_sys_set_running(s, running) == [s EXCEPT !.running = running]

----------------------------------------------------------------------------
(* Bounds and inputs of the explored runs.                                 *)

MaxCalls == 3          \* bus accesses made by the host in one run

MaxSaveCalls == 4      \* calls made in one run of the save-state machine

MaxFrames == 1         \* calls of nes_sys_step_frame in one run

MaxDots == 130         \* turns of the frame loop followed one by one

Builds == {"trap", "dividend"}

Wilds == {0, 255}

BusAddrs == {2047, 8191, 8192, 8194, 8197, 8202}

BusVals == {1, 129}

SaveAddrs == {16, 24576, 32768}

SaveVals == {1, 3}

MaxMmc1Calls == 6      \* bus writes in one run of the MMC1 cartridge

\* PRG-RAM, the control register and the PRG bank register
Mmc1Addrs == {24576, 32768, 57344}

Mmc1Vals == {0, 1, 128}

\* lengths of files: none, one byte short of a header, a header, one byte
\* short of header + PRG, header + PRG, one byte short of and exactly
\* header + PRG + CHR, and the same with a trainer
FileSizes == {0, 15, 16, 32783, 32784, 40975, 40976, 41488}

\* the files named on the command line: mappers 0, 1, 5, 16, 17 and 21,
\* with and without CHR-ROM and trainer, with horizontal mirroring
Files ==
  [ found : {TRUE}, size : FileSizes,
    magic : {NES_MAGIC, << 78, 69, 83, 0 >>},
    prg_rom_size : {2}, chr_rom_size : {0, 1},
    flags6 : {0, 4, 16, 80}, flags7 : {0, 16},
    prg : {ImageNmi.prg}, chr : {Empty} ]
  \cup
  [ found : {FALSE}, size : {0}, magic : {NES_MAGIC},
    prg_rom_size : {1}, chr_rom_size : {0}, flags6 : {0}, flags7 : {0},
    prg : {Empty}, chr : {Empty} ]

MaxPaletteCalls == 5   \* host calls in one run of the PPU address and data ports

\* bytes written to $2006: the high byte of $3Fxx and the low bytes of
\* $3F00, $3F10 and $3F1C
PaletteAddrBytes == {63, 0, 16, 28}

PaletteVals == {1, 34}

MaxNoiseCalls == 2     \* host calls in one run of the noise channel

\* the 15-bit values of the noise shift register other than 0; in long mode
\* the register runs through all of them from the seed 1
LfsrValues == 1 .. 32767

\* bytes written to $400E: long mode with period 4, short mode with period 8
NoiseVals == {0, 129}

MaxAudioCalls == 1     \* calls of nes_sys_get_audio in one run

\* samples asked for: none, one, and the 2048 of the SDL audio device
AudioSamples == {0, 1, 2048}

\* the ends of the two halves of the cartridge window
NromAddrs == {32768, 49151, 49152, 65530, 65535}

MaxFlowCalls == 2      \* calls of nes_cpu_step on a program placed in RAM

\* BPL, BMI, BVC, BVS, BCC, BCS, BNE, BEQ
BranchOpcodes == {16, 48, 80, 112, 144, 176, 208, 240}

\* operands of a branch: 0, +2, +127, -128, -6 and -1
BranchOffsets == {0, 2, 127, 128, 250, 255}

\* where the instruction lies: at the start of a page, just before the end
\* of a page and with its last byte at the end of a page
FlowBases == {512, 765, 766}

\* P with N, V, Z and C clear and with all four set
FlowStatus == {36, 231}

\* operands of JSR: the start and the end of a page
JsrTargets == {768, 1023}

MaxScrollCalls == 5    \* host calls in one run of the scroll and address ports

\* bytes written to $2005 and $2006: nothing set, fine 5 and coarse 13,
\* everything set
ScrollVals == {0, 109, 255}

MaxVramCalls == 3      \* host calls in one run of the PPU data port

\* VRAM addresses: the first cell of each nametable, cells inside them, the
\* last cell of the mirror of the nametables, and palette cells
VramAddrs == {8192, 9216, 10240, 11264, 8229, 10277, 12288, 16127,
              16128, 16133, 16144, 16191}

VramVals == {85, 193}

MaxMmc3Calls == 3      \* bus writes in one run of the MMC3 cartridge

\* even and odd addresses of the bank registers, of their mirror range and
\* of the range $A000-$BFFF
Mmc3Addrs == {32768, 32769, 40958, 40959, 40960, 40961, 49151}

\* slot 0 with no mode, slot 6 with the PRG mode, slot 1 with both modes,
\* bits outside the slot and the modes
Mmc3Vals == {0, 70, 193, 58}

MaxSeqWrites == 1      \* register writes before the frame counter runs

\* host calls in one run of the frame counter: the writes and one sequence
\* of 14916 cycles
MaxSeqCalls == 14918

\* the sweep register and the length/envelope-start register of pulse 1
SeqAddrs == {16385, 16387}

\* sweep off with period 0, length index 1
SeqVals == {8}

\* the cycles of the four steps of the 4-step sequence
SeqSteps == << 3729, 7457, 11186, 14915 >>

MaxOamCalls == 3       \* bus writes in one run of the sprite DMA

\* the pages written to $4014: RAM, the last page of RAM, the first page of
\* its first mirror, PRG-RAM and the cartridge ROM
OamPages == {0, 7, 8, 96, 128}

\* what the host writes before the DMA: a byte of the first page of RAM, a
\* byte of the last, a byte of PRG-RAM and OAMADDR
OamSetup == { << 0, 1 >>, << 2047, 129 >>, << 24576, 1 >>, << 8195, 4 >> }

MaxAddrWrites == 2     \* writes to $2006 before the PPU runs

\* host calls in one run of the idle PPU: the writes and the dots of the
\* pre-render line and of the first visible line
MaxDotCalls == 684

\* the bytes of the address $2108
AddrBytes == {33, 8}

MaxPrgRamCalls == 3    \* bus writes in one run of the MMC1 cartridge with RAM

\* the end of RAM, the two ends of PRG-RAM and the control register
PrgRamAddrs == {2047, 24576, 32767, 32768}

\* host calls in one run of the DMC in which a register may be written
MaxDmcLead == 3

\* cycles in which the output unit plays a sample of 17 bytes at the period
\* 0 of a reset channel, two more output cycles included: 8 * (17 + 2)
DmcPlayTime == 152

\* a sample of 17 bytes, and the channel enabled
DmcWrites == { << 16403, 1 >>, << 16405, 16 >> }

MaxPadCalls == 12      \* host calls in one run of the controller port

\* the buttons pressed and released: A and Right of controller 0, B of
\* controller 1
PadButtons == {<< 0, 0 >>, << 0, 7 >>, << 1, 1 >>}

\* accumulators and operands of the ALU
AluBytes == 0 .. 255

MaxStepCalls == 10     \* calls made in one run of the CPU stepped by hand

\* status bytes pulled by PLP and RTI: nothing set, B and U, all but B and U,
\* everything
StatusBytes == {0, 48, 207, 255}

----------------------------------------------------------------------------
(* The state machine.                                                      *)

Idle == [active |-> FALSE, i |-> 0]

\* History of the writes to the serial port of the cartridge, $8000-$FFFF:
\* whether a write with bit 7 set has been made and, since the last one, the
\* bit 0 of every write with bit 7 clear, in groups of five.
Serial0 == [armed |-> FALSE, bits |-> << >>]

Serial(h, op, addr, val) ==
  IF op # "write" \/ addr < 32768 THEN h
  ELSE IF val >= 128 THEN [armed |-> TRUE, bits |-> << >>]
  ELSE IF ~h.armed THEN h
  ELSE [h EXCEPT !.bits = IF Len(@) = 5 THEN << val % 2 >>
                          ELSE Append(@, val % 2)]

\* History of the controller port: whether the last write to $4016 had bit 0
\* set, whether a write with bit 0 set has been followed by one with bit 0
\* clear and, since then, how many times each controller has been read.
Pad0 == [high |-> FALSE, armed |-> FALSE, reads |-> [c \in {0, 1} |-> 0]]

Pad(h, op, addr, val) ==
  IF op = "write" /\ addr = JOY_STROBE THEN
    IF val % 2 = 1 THEN [h EXCEPT !.high = TRUE, !.armed = FALSE]
    ELSE IF h.high THEN [high |-> FALSE, armed |-> TRUE, reads |-> [c \in {0, 1} |-> 0]]
    ELSE h
  ELSE IF op = "read" /\ addr \in {CONTROLLER_1, CONTROLLER_2} /\ h.armed THEN
    [h EXCEPT !.reads[IF addr = CONTROLLER_1 THEN 0 ELSE 1] = @ + 1]
  ELSE h

Obs0(s) ==
  [ op |-> "none", addr |-> 0, val |-> 0, ret |-> 0, before |-> s,
    log |-> Log0, calls |-> 0, frames |-> 0, saved |-> s, serial |-> Serial0,
    pad |-> Pad0,
    file |-> << >> ]   \* the file nes_sys_load_rom was called with, if any

Obs(op, addr, val, ret, before, log) ==
  [obs EXCEPT !.op = op, !.addr = addr, !.val = val, !.ret = ret,
              !.before = before, !.log = log, !.calls = @ + 1,
              !.serial = Serial(@, op, addr, val),
              !.pad = Pad(@, op, addr, val)]

InitWith(images) ==
  /\ \E image \in images, build \in Builds, wild \in Wilds :
       /\ sys = PowerOn(image, build, wild)
       /\ obs = Obs0(sys)
  /\ savefile = << >>
  /\ frame = Idle

\* a host call of the bus has returned r
Returned(op, addr, val, r) ==
  /\ sys' = r.sys
  /\ obs' = Obs(op, addr, val, r.val, sys, r.log)

\* the host reads a byte through the CPU bus
CpuRead(addr) ==
  /\ Running(sys) /\ ~frame.active
  /\ Returned("read", addr, 0, Call("HostRead", << sys, addr >>))
  /\ UNCHANGED << savefile, frame >>

\* the host writes a byte through the CPU bus
CpuWrite(addr, val) ==
  /\ Running(sys) /\ ~frame.active
  /\ Returned("write", addr, val, Call("HostWrite", << sys, addr, val >>))
  /\ UNCHANGED << savefile, frame >>

\* a button goes down or up: nes_input_set_button, which the SDL front end
\* calls for controller 0 and the library offers for both controllers
SetButton(controller, button, pressed) ==
  /\ Running(sys) /\ ~frame.active
  /\ sys' = [sys EXCEPT !.input = Call("nes_input_set_button",
                                       << @, controller, button, pressed >>)]
  /\ obs' = Obs("button", controller * NUM_BUTTONS + button, pressed, 0, sys, Log0)
  /\ UNCHANGED << savefile, frame >>

\* main calls nes_sys_load_rom with the file named on the command line; val
\* is what nes_cartridge_load returned and ret what nes_sys_load_rom returned
LoadRom(file) ==
  /\ Running(sys) /\ ~frame.active /\ obs.file = << >>
  /\ LET r == Call("nes_sys_load_rom_file", << sys, file >>)
     IN  /\ sys' = r.sys
         /\ obs' = [Obs("load", 0, r.result, r.val, sys, Log0) EXCEPT !.file = << file >>]
  /\ UNCHANGED << savefile, frame >>

\* main from nes_sys_load_rom to the start of the loop: a failed load is
\* followed by nes_sys_free and the end of the process
Start(file, detected) ==
  /\ Running(sys) /\ ~frame.active /\ obs.file = << >>
  /\ LET r == Call("main", << sys, file, detected >>)
     IN  /\ sys' = r.sys
         /\ obs' = [Obs("load", 0, r.result, r.val, sys, Log0) EXCEPT !.file = << file >>]
  /\ UNCHANGED << savefile, frame >>

\* main after its loop: nes_sys_free
Shutdown(detected) ==
  /\ Running(sys) /\ ~frame.active /\ obs.file # << >>
  /\ sys' = Call("nes_sys_free", << sys, detected >>)
  /\ obs' = Obs("free", 0, 0, 0, sys, Log0)
  /\ UNCHANGED << savefile, frame >>

\* nes_sys_get_audio is called for max_samples samples, before, after or
\* between two turns of the loop of nes_sys_step_frame
GetAudio(max_samples) ==
  /\ Running(sys)
  /\ LET r == Call("nes_sys_get_audio", << sys, max_samples >>)
     IN  /\ sys' = r.sys
         /\ obs' = Obs("audio", 0, max_samples, r.val, sys, obs.log)
  /\ UNCHANGED << savefile, frame >>

\* one nes_apu_step
ApuStep ==
  /\ Running(sys) /\ ~frame.active
  /\ sys' = [sys EXCEPT !.apu = Call("nes_apu_step", << @ >>)]
  /\ obs' = Obs("apu_step", 0, 0, 0, sys, Log0)
  /\ UNCHANGED << savefile, frame >>

\* one nes_ppu_step
PpuStep ==
  /\ Running(sys) /\ ~frame.active
  /\ LET r == Call("nes_ppu_step", << sys >>)
     IN  /\ sys' = r.sys
         /\ obs' = Obs("ppu_step", 0, 0, r.val, sys, Log0)
  /\ UNCHANGED << savefile, frame >>

\* F5: nes_sys_save_state; fopen succeeds or not
SaveState(opened) ==
  /\ Running(sys) /\ ~frame.active
  /\ IF opened
     THEN /\ savefile' = << nes_sys_save_state(sys) >>
          /\ obs' = [Obs("save", 0, 0, 0, sys, Log0) EXCEPT !.saved = sys]
     ELSE /\ savefile' = savefile
          /\ obs' = Obs("save", 0, 0, -1, sys, Log0)
  /\ UNCHANGED << sys, frame >>

\* F9: nes_sys_load_state; fopen fails while there is no file
LoadState ==
  /\ Running(sys) /\ ~frame.active
  /\ IF savefile = << >>
     THEN /\ sys' = sys
          /\ obs' = Obs("load", 0, 0, -1, sys, Log0)
     ELSE /\ sys' = nes_sys_load_state(sys, savefile[1])
          /\ obs' = Obs("load", 0, 0, 0, sys, Log0)
  /\ UNCHANGED << savefile, frame >>

\* Escape: sys->running = 0
Escape ==
  /\ Running(sys) /\ ~frame.active /\ sys.running # 0
  /\ sys' = nes_sys_set_running(sys, 0)
  /\ obs' = Obs("escape", 0, 0, 0, sys, Log0)
  /\ UNCHANGED << savefile, frame >>

\* nes_sys_step_frame is called: it returns 0 at once or enters its loop
StepFrameCall ==
  /\ Running(sys) /\ ~frame.active /\ obs.frames < MaxFrames
  /\ IF sys.running = 0 \/ sys.paused # 0
     THEN /\ sys' = sys
          /\ frame' = Idle
          /\ obs' = [Obs("step_frame", 0, 0, 0, sys, Log0) EXCEPT !.frames = @ + 1]
     ELSE /\ sys' = [sys EXCEPT !.frame_complete = 0]
          /\ frame' = [active |-> TRUE, i |-> 0]
          /\ obs' = [Obs("step_frame", 0, 0, -1, sys, Log0) EXCEPT !.frames = @ + 1]
  /\ UNCHANGED savefile

\* the for loop of nes_sys_step_frame is still on
Looping == frame.active /\ frame.i < NES_PPU_CYCLES_PER_FRAME /\ sys.frame_complete = 0

\* the for loop has made turns and stands at st.i
Turned(st) ==
  /\ sys' = st.sys
  /\ obs' = [obs EXCEPT !.log = st.log]
  /\ frame' = [frame EXCEPT !.i = st.i]

\* one turn of the for loop
FrameDot ==
  /\ Running(sys) /\ Looping /\ frame.i < MaxDots
  /\ Turned(Call("FrameTurns", << sys, obs.log, frame.i, 1 >>))
  /\ UNCHANGED savefile

\* the turns of the for loop up to the end of the PPU's scanline
FrameScanline ==
  /\ Running(sys) /\ Looping
  /\ Turned(Call("FrameTurns", << sys, obs.log, frame.i, PPU_LAST_CYCLE + 1 >>))
  /\ UNCHANGED savefile

\* the loop is over: the APU runs its frame and nes_sys_step_frame returns 1
FrameReturn ==
  /\ Running(sys) /\ frame.active /\ ~Looping
  /\ sys' = [sys EXCEPT
               !.apu = Call("nes_apu_execute_cycles",
                            << @, NES_CPU_CYCLES_PER_FRAME >>),
               !.frame_complete = 1]
  /\ obs' = [obs EXCEPT !.ret = 1]
  /\ frame' = Idle
  /\ UNCHANGED savefile

\* the host calls nes_cpu_step
Step ==
  /\ Running(sys) /\ ~frame.active
  /\ Returned("step", 0, 0, Call("HostStep", << sys >>))
  /\ UNCHANGED << savefile, frame >>

\* F1: the host calls nes_sys_reset
Reset ==
  /\ Running(sys) /\ ~frame.active
  /\ Returned("reset", 0, 0, Call("HostReset", << sys >>))
  /\ UNCHANGED << savefile, frame >>

\* the host raises the NMI line
TriggerNmi ==
  /\ Running(sys) /\ ~frame.active /\ sys.cpu.pending_nmi = 0
  /\ sys' = nes_cpu_trigger_nmi(sys)
  /\ obs' = Obs("nmi", 0, 0, 0, sys, Log0)
  /\ UNCHANGED << savefile, frame >>

\* the host raises the IRQ line
TriggerIrq ==
  /\ Running(sys) /\ ~frame.active /\ sys.cpu.pending_irq = 0
  /\ sys' = nes_cpu_trigger_irq(sys)
  /\ obs' = Obs("irq", 0, 0, 0, sys, Log0)
  /\ UNCHANGED << savefile, frame >>

\* do_adc applied to the accumulator and the carry the CPU holds
Adc(value) ==
  /\ Running(sys) /\ ~frame.active /\ obs.op = "none"
  /\ sys' = Call("do_adc", << sys, value >>)
  /\ obs' = Obs("adc", 0, value, 0, sys, Log0)
  /\ UNCHANGED << savefile, frame >>

\* do_sbc applied to the accumulator and the carry the CPU holds
Sbc(value) ==
  /\ Running(sys) /\ ~frame.active /\ obs.op = "none"
  /\ sys' = Call("do_sbc", << sys, value >>)
  /\ obs' = Obs("sbc", 0, value, 0, sys, Log0)
  /\ UNCHANGED << savefile, frame >>

\* the bus, accessed by the host
InitBus == InitWith({ImageNmi})

NextBus ==
  \/ \E addr \in BusAddrs : obs.calls < MaxCalls /\ CpuRead(addr)
  \/ \E addr \in BusAddrs, val \in BusVals :
       obs.calls < MaxCalls /\ CpuWrite(addr, val)

SpecBus == InitBus /\ [][NextBus]_vars

\* the frame loop followed turn by turn over its first dots
InitCpu == InitWith({ImageNmi, ImageDma, ImageDmaLoop})

NextCpu == StepFrameCall \/ FrameDot

SpecCpu == InitCpu /\ [][NextCpu]_vars

\* whole frames
InitFrame == InitWith({ImageNmi})

NextFrame == StepFrameCall \/ FrameScanline \/ FrameReturn \/ Escape

SpecFrame == InitFrame /\ [][NextFrame]_vars

\* the host runs frames of a cartridge that shows sprites over a background
InitSprite == InitWith({ImageSprite})

NextSprite == StepFrameCall \/ FrameScanline \/ FrameReturn

SpecSprite == InitSprite /\ [][NextSprite]_vars

\* save states on an MMC1 cartridge
InitSave == InitWith({ImageMmc1})

NextSave ==
  \/ \E addr \in SaveAddrs, val \in SaveVals :
       obs.calls < MaxSaveCalls /\ CpuWrite(addr, val)
  \/ \E opened \in BOOLEAN : obs.calls < MaxSaveCalls /\ SaveState(opened)
  \/ obs.calls < MaxSaveCalls /\ LoadState

SpecSave == InitSave /\ [][NextSave]_vars

\* the CPU stepped by hand, with interrupts raised and resets in between
InitStep == InitWith({ImagePull(v) : v \in StatusBytes} \cup {ImageJmpInd})

NextStep ==
  \/ obs.calls < MaxStepCalls /\ Step
  \/ obs.calls < MaxStepCalls /\ Reset
  \/ obs.calls < MaxStepCalls /\ TriggerNmi
  \/ obs.calls < MaxStepCalls /\ TriggerIrq

SpecStep == InitStep /\ [][NextStep]_vars

\* do_adc and do_sbc on every accumulator, operand, carry and decimal flag;
\* neither reads memory, so the machine is taken with one content of the
\* memory around the ROM
InitAdc ==
  /\ \E build \in Builds, a \in AluBytes, c \in {0, 1}, d \in {0, 1} :
       /\ sys = [PowerOn(ImageNmi, build, 0) EXCEPT
                   !.cpu.a = a,
                   !.cpu.p = @ + c * FLAG_CARRY + d * FLAG_DECIMAL]
       /\ obs = Obs0(sys)
  /\ savefile = << >>
  /\ frame = Idle

NextAdc ==
  \/ obs.op = "none" /\ \E value \in AluBytes : Adc(value)
  \/ obs.op = "none" /\ \E value \in AluBytes : Sbc(value)

SpecAdc == InitAdc /\ [][NextAdc]_vars

\* the MMC1 cartridge written by the host
InitMmc1 == InitWith({ImageMmc1})

NextMmc1 ==
  \E addr \in Mmc1Addrs, val \in Mmc1Vals :
    obs.calls < MaxMmc1Calls /\ CpuWrite(addr, val)

SpecMmc1 == InitMmc1 /\ [][NextMmc1]_vars

\* the machine after nes_sys_init, and the call of nes_sys_load_rom
InitLoad ==
  /\ \E build \in Builds, wild \in Wilds :
       /\ sys = nes_sys_init(build, wild)
       /\ obs = Obs0(sys)
  /\ savefile = << >>
  /\ frame = Idle

NextLoad == \E file \in Files : LoadRom(file)

SpecLoad == InitLoad /\ [][NextLoad]_vars

\* the PPU address and data ports written and read by the host
InitPalette == InitWith({ImageNmi})

NextPalette ==
  \/ \E val \in PaletteAddrBytes :
       obs.calls < MaxPaletteCalls /\ CpuWrite(NES_ADDR_PPU_REG + 6, val)
  \/ \E val \in PaletteVals :
       obs.calls < MaxPaletteCalls /\ CpuWrite(NES_ADDR_PPU_REG + 7, val)
  \/ obs.calls < MaxPaletteCalls /\ CpuRead(NES_ADDR_PPU_REG + 7)

SpecPalette == InitPalette /\ [][NextPalette]_vars

\* the noise channel stepped, written and reset, from every value of its
\* shift register
InitNoise ==
  /\ \E build \in Builds, lfsr \in LfsrValues :
       /\ sys = [PowerOn(ImageNmi, build, 0) EXCEPT !.apu.noise.lfsr = lfsr]
       /\ obs = Obs0(sys)
  /\ savefile = << >>
  /\ frame = Idle

NextNoise ==
  \/ obs.calls < MaxNoiseCalls /\ ApuStep
  \/ obs.calls < MaxNoiseCalls /\ \E val \in NoiseVals : CpuWrite(NES_ADDR_APU_REG + 14, val)
  \/ obs.calls < MaxNoiseCalls /\ Reset

SpecNoise == InitNoise /\ [][NextNoise]_vars

\* NROM cartridges of one and of two banks, read and written by the host
InitNrom == InitWith({ImageNrom16, ImageNmi})

NextNrom ==
  \/ \E addr \in NromAddrs : obs.calls < MaxCalls /\ CpuRead(addr)
  \/ \E addr \in NromAddrs, val \in BusVals :
       obs.calls < MaxCalls /\ CpuWrite(addr, val)

SpecNrom == InitNrom /\ [][NextNrom]_vars

\* a frame of a program that enables the frame interrupt of the APU
InitIrq == InitWith({ImageIrq})

NextIrq == StepFrameCall \/ FrameScanline \/ FrameReturn

SpecIrq == InitIrq /\ [][NextIrq]_vars

\* the machine with a program in RAM, PC at its first byte and P as given
FlowMachine(build, base, p, program) ==
  [PowerOn(ImageNmi, build, 0) EXCEPT
     !.ram = [i \in {j \in DOMAIN program : program[j] # 0} |-> program[i]],
     !.cpu.pc = base,
     !.cpu.p = p]

\* a branch, or a JSR whose subroutine is RTS, stepped by the host
InitFlow ==
  /\ \E build \in Builds, base \in FlowBases, p \in FlowStatus :
       /\ \/ \E opcode \in BranchOpcodes, offset \in BranchOffsets :
               sys = FlowMachine(build, base, p, Bytes(base, << opcode, offset >>))
          \/ \E target \in JsrTargets :
               sys = FlowMachine(build, base, p,
                       Bytes(base, << 32, target % 256, target \div 256 >>) @@
                       Bytes(target, << 96, 96 >>))
       /\ obs = Obs0(sys)
  /\ savefile = << >>
  /\ frame = Idle

NextFlow == obs.calls < MaxFlowCalls /\ Step

SpecFlow == InitFlow /\ [][NextFlow]_vars

\* the scroll and address ports written by the host, the status and data
\* ports read in between
InitScroll == InitWith({ImageNmi})

NextScroll ==
  \/ \E val \in ScrollVals :
       obs.calls < MaxScrollCalls /\ CpuWrite(NES_ADDR_PPU_REG + 5, val)
  \/ \E val \in ScrollVals :
       obs.calls < MaxScrollCalls /\ CpuWrite(NES_ADDR_PPU_REG + 6, val)
  \/ obs.calls < MaxScrollCalls /\ CpuRead(PPUSTATUS)
  \/ obs.calls < MaxScrollCalls /\ CpuRead(NES_ADDR_PPU_REG + 7)

SpecScroll == InitScroll /\ [][NextScroll]_vars

\* the data port written and read by the host, the VRAM address standing at
\* one of VramAddrs, on cartridges of both mirrorings and with both address
\* increments
InitVram ==
  /\ \E image \in {ImageNmi, ImageVertical}, build \in Builds,
        A \in VramAddrs, ctrl \in {0, PPUCTRL_INC32} :
       /\ sys = [PowerOn(image, build, 0) EXCEPT
                   !.ppu.v = A, !.ppu.t = A, !.ppu.ctrl = ctrl]
       /\ obs = Obs0(sys)
  /\ savefile = << >>
  /\ frame = Idle

NextVram ==
  \/ \E val \in VramVals :
       obs.calls < MaxVramCalls /\ CpuWrite(NES_ADDR_PPU_REG + 7, val)
  \/ obs.calls < MaxVramCalls /\ CpuRead(NES_ADDR_PPU_REG + 7)

SpecVram == InitVram /\ [][NextVram]_vars

\* the registers of an MMC3 cartridge written by the host
InitMmc3 == InitWith({ImageMmc3})

NextMmc3 ==
  \E addr \in Mmc3Addrs, val \in Mmc3Vals :
    obs.calls < MaxMmc3Calls /\ CpuWrite(addr, val)

SpecMmc3 == InitMmc3 /\ [][NextMmc3]_vars

\* the frame counter run through one sequence after a register write
InitSeq == InitWith({ImageNmi})

NextSeq ==
  \/ \E addr \in SeqAddrs, val \in SeqVals :
       obs.calls < MaxSeqWrites /\ CpuWrite(addr, val)
  \/ obs.calls < MaxSeqCalls /\ ApuStep

SpecSeq == InitSeq /\ [][NextSeq]_vars

\* the sprite DMA started by the host from every kind of page
InitOam == InitWith({ImageNmi})

NextOam ==
  \/ \E w \in OamSetup : obs.calls < MaxOamCalls /\ CpuWrite(w[1], w[2])
  \/ \E page \in OamPages : obs.calls < MaxOamCalls /\ CpuWrite(16404, page)

SpecOam == InitOam /\ [][NextOam]_vars

\* the PPU stepped with rendering off after an address was set
InitDots == InitWith({ImageNmi})

NextDots ==
  \/ \E val \in AddrBytes :
       obs.calls < MaxAddrWrites /\ CpuWrite(NES_ADDR_PPU_REG + 6, val)
  \/ obs.calls < MaxDotCalls /\ PpuStep

SpecDots == InitDots /\ [][NextDots]_vars

\* an MMC1 cartridge written below and inside its register window
InitPrgRam == InitWith({ImageMmc1})

NextPrgRam ==
  \E addr \in PrgRamAddrs, val \in Mmc1Vals :
    obs.calls < MaxPrgRamCalls /\ CpuWrite(addr, val)

SpecPrgRam == InitPrgRam /\ [][NextPrgRam]_vars

\* the DMC started by the host within the first calls and the APU stepped
\* for the time the sample takes
InitDmc == InitWith({ImageNmi})

NextDmc ==
  \/ \E w \in DmcWrites : obs.calls < MaxDmcLead /\ CpuWrite(w[1], w[2])
  \/ obs.calls < MaxDmcLead + DmcPlayTime /\ ApuStep

SpecDmc == InitDmc /\ [][NextDmc]_vars

\* the process from the load of its file to its end
InitFree == InitLoad

NextFree ==
  \/ \E file \in Files, detected \in BOOLEAN : Start(file, detected)
  \/ \E detected \in BOOLEAN : Shutdown(detected)

SpecFree == InitFree /\ [][NextFree]_vars

\* audio is fetched before a frame and between the turns of its loop
InitAudio == InitWith({ImageNmi})

NextAudio ==
  \/ StepFrameCall
  \/ FrameDot
  \/ \E max_samples \in AudioSamples :
       obs.calls - obs.frames < MaxAudioCalls /\ GetAudio(max_samples)

SpecAudio == InitAudio /\ [][NextAudio]_vars

\* the controller port read by the host while buttons go down and up
InitPad == InitWith({ImageNmi})

NextPad ==
  \/ \E val \in {0, 1} : obs.calls < MaxPadCalls /\ CpuWrite(JOY_STROBE, val)
  \/ \E addr \in {CONTROLLER_1, CONTROLLER_2} : obs.calls < MaxPadCalls /\ CpuRead(addr)
  \/ \E b \in PadButtons, pressed \in {0, 1} :
       obs.calls < MaxPadCalls /\ SetButton(b[1], b[2], pressed)

SpecPad == InitPad /\ [][NextPad]_vars

Init == InitFrame

Next == NextFrame

Spec == SpecFrame

----------------------------------------------------------------------------
(* The bus: mirrors of the PPU registers and of RAM, and the status read.  *)

\* the host's last call was a read, or a write, at an address in lo..hi
ReadAt(lo, hi) == obs.op = "read" /\ obs.addr \in lo..hi

WriteAt(lo, hi) == obs.op = "write" /\ obs.addr \in lo..hi

\* the register that an address in $2000-$3FFF mirrors
MirroredReg(addr) == NES_ADDR_PPU_REG + (addr % 8)

\* C8: a read or a write at an address A in $2000-$3FFF returns the same
\* byte and leaves the same PPU state as the same access at $2000 | (A & 7)
C8_PpuRegistersMirrorEvery8 ==
  /\ ReadAt(NES_ADDR_PPU_REG, NES_ADDR_APU_REG - 1) =>
       LET r == HostRead(obs.before, MirroredReg(obs.addr))
       IN  obs.ret = r.val /\ sys.ppu = r.sys.ppu
  /\ WriteAt(NES_ADDR_PPU_REG, NES_ADDR_APU_REG - 1) =>
       sys.ppu = HostWrite(obs.before, MirroredReg(obs.addr), obs.val).sys.ppu

\* a read of $200A, which mirrors PPUSTATUS, has been made with VBlank set
C8_MirrorOfStatusRead ==
  /\ ReadAt(NES_ADDR_PPU_REG + 8, NES_ADDR_APU_REG - 1)
  /\ obs.addr % 8 = 2
  /\ Test(obs.before.ppu.status, PPUSTATUS_VBLANK)

\* C9: a read at A in $0000-$1FFF returns what a read at A & $07FF returns,
\* and after a write of d at A both A & $07FF and A read d
C9_RamMirrorsEvery2K ==
  /\ ReadAt(0, NES_ADDR_PPU_REG - 1) =>
       obs.ret = HostRead(obs.before, obs.addr % NES_RAM_SIZE).val
  /\ WriteAt(0, NES_ADDR_PPU_REG - 1) =>
       /\ HostRead(sys, obs.addr % NES_RAM_SIZE).val = obs.val
       /\ HostRead(sys, obs.addr).val = obs.val

\* a byte has been written at $1FFF
C9_WriteAtLastMirror ==
  WriteAt(NES_ADDR_PPU_REG - 1, NES_ADDR_PPU_REG - 1) /\ obs.val # 0

\* C10: after a read of PPUSTATUS the VBlank flag and the write toggle are 0
\* and the rest of the PPU state is what it was before the read
C10_StatusReadClearsVBlankAndToggle ==
  ReadAt(PPUSTATUS, PPUSTATUS) =>
    /\ ~Test(sys.ppu.status, PPUSTATUS_VBLANK)
    /\ sys.ppu.w = 0
    /\ sys.ppu = [obs.before.ppu EXCEPT
                    !.status = IF Test(@, PPUSTATUS_VBLANK)
                               THEN @ - PPUSTATUS_VBLANK ELSE @,
                    !.w = 0]

\* PPUSTATUS has been read with VBlank set, the toggle set by a first write
\* of PPUSCROLL, and t and x holding what that write put there
C10_StatusReadWithToggleSet ==
  /\ ReadAt(PPUSTATUS, PPUSTATUS)
  /\ Test(obs.before.ppu.status, PPUSTATUS_VBLANK)
  /\ obs.before.ppu.w = 1
  /\ obs.before.ppu.t # 0
  /\ obs.before.ppu.x # 0
  /\ obs.ret >= PPUSTATUS_VBLANK

----------------------------------------------------------------------------
(* OAM DMA started by the program and the nesting of nes_cpu_step.         *)

\* the transfers nes_sys_oam_dma has completed since nes_sys_step_frame
\* was called
Transfers == { obs.log.dma[k] : k \in DOMAIN obs.log.dma }

\* C3: between a write to $4014 and the copy no opcode is fetched, and the
\* cycle counter advances by 513 from an even cycle and by 514 from an odd one
C3_DmaStallsWithoutExecuting ==
  \A d \in Transfers :
    /\ d.fetches_at_copy = d.fetches_at_write
    /\ U32(d.cycles_at_copy - d.cycles_at_write)
         = IF d.cycles_at_write % 2 = 0 THEN 513 ELSE 514

\* a transfer has completed during which opcodes were fetched
C3_FetchesDuringStall ==
  \E d \in Transfers : d.fetches_at_copy > d.fetches_at_write

\* C4: no opcode is fetched between a write to $4014 and the end of the
\* copy, and OAM receives the page as it was when $4014 was written
C4_DmaIsAtomic ==
  \A d \in Transfers :
    /\ d.fetches_at_copy = d.fetches_at_write
    /\ d.oam = d.oam_at_write

\* a transfer has completed that copied a page changed after the write
C4_PageChangedBeforeCopy ==
  \E d \in Transfers : d.oam # d.oam_at_write

\* C5: a call of nes_cpu_step returns, and no other call of nes_cpu_step
\* is made before it has returned
C5_StepRunsOneInstruction ==
  /\ sys.host # "overflow"
  /\ obs.log.nest <= 1

\* the nesting of nes_cpu_step has exhausted the host's stack
C5_HostStackExhausted ==
  sys.host = "overflow" /\ obs.log.nest = MaxNest

----------------------------------------------------------------------------
(* Save states.                                                            *)

\* nes_sys_load_state has just returned 0
Loaded == obs.op = "load" /\ obs.ret = 0

\* C6: after nes_sys_load_state the machine is the machine that
\* nes_sys_save_state saved: the work RAM and the CPU, PPU, APU and input
\* state, and with them the mapper's registers, the nametable mirroring
\* mode, the nametables, PRG-RAM and CHR-RAM
C6_LoadRestoresSavedMachine ==
  Loaded =>
    /\ sys.cpu = obs.saved.cpu /\ sys.ppu = obs.saved.ppu
    /\ sys.apu = obs.saved.apu /\ sys.input = obs.saved.input
    /\ sys.ram = obs.saved.ram
    /\ sys.ctx = obs.saved.ctx
    /\ sys.g_mirror_mode = obs.saved.g_mirror_mode
    /\ sys.g_frame_buffer = obs.saved.g_frame_buffer
    /\ sys.cartridge.prg_ram = obs.saved.cartridge.prg_ram
    /\ sys.cartridge.chr_rom = obs.saved.cartridge.chr_rom

\* a state has been loaded after the MMC1 shift register and PRG-RAM were
\* written since the save
C6_LoadAfterMapperAndPrgRamWrites ==
  /\ Loaded
  /\ obs.before.ctx # obs.saved.ctx
  /\ obs.before.cartridge.prg_ram # obs.saved.cartridge.prg_ram

----------------------------------------------------------------------------
(* The frame loop: clock ratio, frame length and the NMI at VBlank.        *)

\* nes_sys_step_frame has entered its loop and the host is alive
InFrame == obs.op = "step_frame" /\ obs.ret # 0 /\ Running(sys)

\* nes_sys_step_frame has returned 1
FrameDone == obs.op = "step_frame" /\ obs.ret = 1 /\ Running(sys)

\* CPU cycles counted since nes_sys_step_frame was called
CyclesInFrame == U32(sys.cpu.cycle_count - obs.before.cpu.cycle_count)

\* the most cycles one instruction or interrupt entry takes
LongestStep == 7

\* C1: the CPU has run one cycle for every three dots stepped, give or take
\* one instruction, and no dot was followed by three or more CPU cycles
C1_CpuRunsAThirdOfTheDots ==
  InFrame =>
    /\ NES_CPU_PPU_RATIO * CyclesInFrame
         <= obs.log.dots + NES_CPU_PPU_RATIO * LongestStep
    /\ obs.log.dots > 0 => obs.log.fastest < NES_CPU_PPU_RATIO

\* a scanline of dots has been stepped, each followed by 3 CPU cycles or more
C1_ThreeCyclesAfterEveryDot ==
  /\ InFrame
  /\ obs.log.dots > PPU_LAST_CYCLE
  /\ obs.log.fastest >= NES_CPU_PPU_RATIO
  /\ CyclesInFrame >= NES_CPU_PPU_RATIO * obs.log.dots

\* the dots of the frame that starts at ppu: one less on an odd frame with
\* the background shown
DotsOfFrame(ppu) ==
  IF ppu.odd_frame # 0 /\ Test(ppu.mask, PPUMASK_SHOW_BGR)
  THEN PPU_SCANLINES * (PPU_LAST_CYCLE + 1) - 1
  ELSE PPU_SCANLINES * (PPU_LAST_CYCLE + 1)

\* C2: when nes_sys_step_frame returns 1 the PPU has stepped one frame of
\* dots, stands where it stood at the call, and has counted one frame more
C2_StepFrameAdvancesOneFrame ==
  FrameDone =>
    /\ obs.log.dots = DotsOfFrame(obs.before.ppu)
    /\ sys.ppu.scanline = obs.before.ppu.scanline
    /\ sys.ppu.cycle = obs.before.ppu.cycle
    /\ sys.ppu.frame = U32(obs.before.ppu.frame + 1)

\* nes_sys_step_frame has returned 1 after NES_PPU_CYCLES_PER_FRAME dots
C2_FrameReturnedAfterLoop ==
  FrameDone /\ obs.log.dots = NES_PPU_CYCLES_PER_FRAME

\* the NMI entries made since nes_sys_step_frame was called
NmiEntries == { obs.log.nmi[k] : k \in DOMAIN obs.log.nmi }

\* the byte on the stack page at stack pointer sp
StackAt(s, sp) == At(s.ram, NES_STACK_BASE + U8(sp))

\* the NMI vector as the bus reads it
NmiVector(s) ==
  bus_read(s, NES_VECTOR_NMI).val + 256 * bus_read(s, NES_VECTOR_NMI + 1).val

\* C7: every dot stepped at (241,1) with PPUCTRL_NMI set latches the NMI;
\* the next nes_cpu_step takes it without fetching an opcode: PC high, PC
\* low and P (B clear, U set) are pushed, I is set, PC is the vector at
\* $FFFA/$FFFB, 7 cycles are counted and the latch is cleared; there are as
\* many NMI entries as latches
C7_NmiServicedOnceByNextStep ==
  InFrame =>
    /\ obs.log.latches = obs.log.due
    /\ obs.log.unserved = 0
    /\ Len(obs.log.nmi) = obs.log.latches
    /\ sys.cpu.pending_nmi = 0
    /\ \A e \in NmiEntries :
         LET b == e.before.cpu
             a == e.after.cpu
             pushed == StackAt(e.after, b.sp - 2 + 256)
         IN  /\ ~e.fetched
             /\ StackAt(e.after, b.sp) = b.pc \div 256
             /\ StackAt(e.after, b.sp - 1 + 256) = b.pc % 256
             /\ ~Test(pushed, FLAG_BREAK) /\ Test(pushed, FLAG_UNUSED)
             /\ And(pushed, 255 - FLAG_BREAK - FLAG_UNUSED)
                  = And(b.p, 255 - FLAG_BREAK - FLAG_UNUSED)
             /\ a.sp = U8(b.sp - 3 + 256)
             /\ Test(a.p, FLAG_INTERRUPT)
             /\ a.pc = NmiVector(e.before)
             /\ a.cycle_count = U32(b.cycle_count + 7)
             /\ a.pending_nmi = 0

\* the frame has gone past (241,1): the NMI was latched there while the
\* program was in its loop, it was taken, and the handler has run INC $10
C7_NmiTakenAndHandlerReturned ==
  /\ InFrame
  /\ obs.log.due = 1 /\ obs.log.latches = 1 /\ Len(obs.log.nmi) = 1
  /\ obs.log.nmi[1].before.cpu.pending_nmi # 0
  /\ obs.log.nmi[1].before.cpu.pc # NmiVector(sys)
  /\ sys.ppu.scanline > 241
  /\ At(sys.ram, 16) = 1

----------------------------------------------------------------------------
(* The CPU stepped by hand: the status register, reset and JMP (indirect). *)

\* the host's last call was a nes_cpu_step that fetched the opcode and
\* executed it
Executed(opcode) ==
  /\ obs.op = "step" /\ obs.log.fetches = 1
  /\ obs.before.cpu.pc >= 32768
  /\ prg_rom(obs.before, obs.before.cpu.pc - 32768) = opcode

\* the byte on top of the stack before the host's last call
StackTop == At(obs.before.ram, NES_STACK_BASE + U8(obs.before.cpu.sp + 1))

\* C11: after nes_cpu_reset and after every nes_cpu_step that follows it,
\* whatever the opcode, the pulled byte or the interrupt entered, bit 5 (U)
\* of the status register P is 1.
C11_UnusedFlagReadsOne == Test(sys.cpu.p, FLAG_UNUSED)

\* RTI has pulled a status byte whose bit 5 is 0 and has returned to $0000,
\* the address it pulled after the status byte
C11_RtiPulledStatusWithoutBit5 ==
  /\ Executed(64)
  /\ ~Test(StackTop, FLAG_UNUSED)
  /\ sys.cpu.pc = 0

\* C12: when nes_cpu_reset returns (at power-on, inside nes_sys_load_rom, and
\* at every later reset), PC is the little-endian word the bus returns at
\* $FFFC/$FFFD, SP is $FD, P has I and U set, and the NMI latch, the IRQ
\* latch and the stall counter are clear.
C12_ResetLoadsVectorAndClearsLatches ==
  (obs.op \in {"none", "reset"} /\ Running(sys)) =>
    /\ sys.cpu.pc = Call("read16", << sys, NES_VECTOR_RESET >>).val
    /\ sys.cpu.sp = 253
    /\ Test(sys.cpu.p, FLAG_INTERRUPT) /\ Test(sys.cpu.p, FLAG_UNUSED)
    /\ sys.cpu.pending_nmi = 0
    /\ sys.cpu.pending_irq = 0
    /\ sys.cpu.stall_cycles = 0

\* a reset of a CPU that had both latches set, I clear and a stack in use
C12_ResetWithLatchesSet ==
  /\ obs.op = "reset" /\ Running(sys)
  /\ obs.before.cpu.pending_nmi = 1 /\ obs.before.cpu.pending_irq = 1
  /\ ~Test(obs.before.cpu.p, FLAG_INTERRUPT)
  /\ obs.before.cpu.sp # 253
  /\ obs.before.cpu.pc # sys.cpu.pc

\* the pointer operand of the instruction the host's last call executed
PointerOperand == Call("read16", << obs.before, U16(obs.before.cpu.pc + 1) >>).val

\* C13: JMP (indirect) with pointer P leaves PC with its low byte read from P
\* and its high byte read from (P & $FF00) | ((P + 1) & $FF): for a pointer
\* that ends its page the high byte comes from the start of that page.
C13_JmpIndirectWrapsInPage ==
  Executed(108) =>
    LET ptr == PointerOperand
        lo == bus_read(obs.before, ptr).val
        hi == bus_read(obs.before, (ptr \div 256) * 256 + ((ptr + 1) % 256)).val
    IN  sys.cpu.pc = lo + 256 * hi

\* JMP ($81FF) has jumped, and the byte after the pointer, at $8200, differs
\* from the one at the start of the pointer's page
C13_JumpThroughPointerAtPageEnd ==
  /\ Executed(108)
  /\ PointerOperand % 256 = 255
  /\ bus_read(obs.before, U16(PointerOperand + 1)).val
       # bus_read(obs.before, (PointerOperand \div 256) * 256).val
  /\ sys.cpu.pc \div 256 = bus_read(obs.before, (PointerOperand \div 256) * 256).val

----------------------------------------------------------------------------
(* The adder.                                                              *)

\* the carry the CPU held before the host's last call
CarryIn == IF Test(obs.before.cpu.p, FLAG_CARRY) THEN 1 ELSE 0

\* A, C, V, Z and N are those of the binary sum of the old A, m and the old
\* carry, and the other flags are the old ones
AddedToA(m) ==
  LET a == obs.before.cpu.a
      sum == a + m + CarryIn
      result == sum % 256
      flags == FLAG_CARRY + FLAG_ZERO + FLAG_OVERFLOW + FLAG_NEGATIVE
  IN  /\ sys.cpu.a = result
      /\ Test(sys.cpu.p, FLAG_CARRY) <=> sum > 255
      /\ Test(sys.cpu.p, FLAG_OVERFLOW)
           <=> And(And(Not8(Xor(a, m)), Xor(a, result)), 128) # 0
      /\ Test(sys.cpu.p, FLAG_ZERO) <=> result = 0
      /\ Test(sys.cpu.p, FLAG_NEGATIVE) <=> result >= 128
      /\ And(sys.cpu.p, 255 - flags) = And(obs.before.cpu.p, 255 - flags)

\* C14: for every A, M and carry-in, with the decimal flag set or clear, ADC
\* leaves A = (A + M + C) mod 256, C = 1 iff A + M + C > 255, V = 1 iff
\* (~(A ^ M) & (A ^ result)) & $80 is not 0, Z = 1 iff the result is 0 and
\* N = bit 7 of the result; SBC of M gives the result and flags of ADC of ~M.
C14_AdcAndSbcAddInBinary ==
  /\ obs.op = "adc" => AddedToA(obs.val)
  /\ obs.op = "sbc" => AddedToA(255 - obs.val)

\* ADC of $01 to $7F without carry, in decimal mode, has given $80 with N and
\* V set and Z and C clear
C14_AdcOverflowsIntoBit7 ==
  /\ obs.op = "adc" /\ obs.val = 1
  /\ obs.before.cpu.a = 127 /\ CarryIn = 0
  /\ Test(obs.before.cpu.p, FLAG_DECIMAL)
  /\ sys.cpu.a = 128
  /\ Test(sys.cpu.p, FLAG_NEGATIVE) /\ Test(sys.cpu.p, FLAG_OVERFLOW)
  /\ ~Test(sys.cpu.p, FLAG_ZERO) /\ ~Test(sys.cpu.p, FLAG_CARRY)

----------------------------------------------------------------------------
(* The serial port of the MMC1.                                            *)

\* the host's last call was a write to the serial port, $8000-$FFFF
PortWrite == obs.op = "write" /\ obs.addr >= 32768 /\ Running(sys)

\* the registers the port loads
Mmc1Registers(s) ==
  << s.ctx.control, s.ctx.chr_bank_0, s.ctx.chr_bank_1, s.ctx.prg_bank,
     s.ctx.prg_ram_disabled, s.ctx.prg_mode, s.ctx.chr_mode, s.ctx.mirroring >>

\* the bytes the CPU reads at the start of the two PRG windows
PrgWindows(s) ==
  << mapper_cpu_read(s, 32768).val, mapper_cpu_read(s, 49152).val >>

\* the value of five bits, the first being the least significant
SerialValue(bits) ==
  bits[1] + 2 * bits[2] + 4 * bits[3] + 8 * bits[4] + 16 * bits[5]

\* the register the address selects holds the five bits
LatchedAt(addr, data) ==
  IF addr < 40960 THEN sys.ctx.control = data
  ELSE IF addr < 49152 THEN sys.ctx.chr_bank_0 = data
  ELSE IF addr < 57344 THEN sys.ctx.chr_bank_1 = data
  ELSE sys.ctx.prg_bank = data % 16 /\ sys.ctx.prg_ram_disabled = data \div 16

\* C15: a write to the port with bit 7 set leaves the shift count 0; each of
\* the next four writes to the port with bit 7 clear leaves the control, CHR
\* and PRG registers, and so the bytes read in the PRG windows, as they
\* were; the fifth latches the five bits, first written lowest, into the
\* register its address selects and restarts the count.
C15_FifthPortWriteLatches ==
  PortWrite =>
    /\ obs.val >= 128 => sys.ctx.shift_count = 0
    /\ (obs.val < 128 /\ obs.serial.armed /\ Len(obs.serial.bits) < 5) =>
         /\ Mmc1Registers(sys) = Mmc1Registers(obs.before)
         /\ PrgWindows(sys) = PrgWindows(obs.before)
    /\ (obs.val < 128 /\ obs.serial.armed /\ Len(obs.serial.bits) = 5) =>
         /\ LatchedAt(obs.addr, SerialValue(obs.serial.bits))
         /\ sys.ctx.shift_count = 0

\* the fifth write after a write with bit 7 set has loaded the control
\* register with a 1 written first and four 0s
C15_ControlLatchedFromFiveWrites ==
  /\ PortWrite /\ obs.addr < 40960 /\ obs.val < 128
  /\ obs.serial.armed /\ obs.serial.bits = << 1, 0, 0, 0, 0 >>
  /\ sys.ctx.control = 1 /\ obs.before.ctx.control # 1
  /\ sys.ctx.shift_count = 0

----------------------------------------------------------------------------
(* C16, C17: the sprite-zero hit flag.                                     *)

\* the pixel OAM entry 0 has at the dot the machine s is about to draw, by
\* the pattern lookup of the sprite loop (0: transparent or not there)
SpriteZeroPixel(s) ==
  LET sprite == SpriteAt(s, 0)
      x == s.ppu.cycle - 1
      line == s.ppu.scanline - sprite.y
      pattern_table == IF Test(s.ppu.ctrl, PPUCTRL_SP_ADDR) THEN 4096 ELSE 0
      column == IF Test(sprite.attr, SP_ATTR_FLIP_H)
                THEN 7 - (x - sprite.x) ELSE x - sprite.x
      addr == U16(pattern_table + sprite.tile * 16 + line)
  IN  IF line >= 0 /\ line < SpriteHeight(s) /\ x >= sprite.x /\ x < sprite.x + 8
      THEN (Shr(Call("ppu_read_vram", << s, addr >>).val, column) % 2)
           + 2 * (Shr(Call("ppu_read_vram", << s, U16(addr + 8) >>).val, column) % 2)
      ELSE 0

\* C16: a dot sets the sprite-zero hit flag only on a visible scanline at a
\* pixel x in 0..254 where OAM entry 0 has an opaque pixel, with background
\* and sprite rendering both enabled, and at x < 8 only when neither
\* left-column mask bit hides its layer.
C16_HitOnlyByOamEntryZero ==
  \A k \in 1 .. Len(obs.log.hits) :
    LET s == obs.log.hits[k].before
        x == s.ppu.cycle - 1
    IN  /\ s.ppu.scanline < 240
        /\ x >= 0 /\ x <= 254
        /\ SpriteZeroPixel(s) # 0
        /\ Test(s.ppu.mask, PPUMASK_SHOW_BGR) /\ Test(s.ppu.mask, PPUMASK_SHOW_SPR)
        /\ (x < 8 => Test(s.ppu.mask, PPUMASK_SHOW_BGR8)
                     /\ Test(s.ppu.mask, PPUMASK_SHOW_SPR8))

\* a dot has set the flag on a scanline OAM entry 0 does not reach
C16_HitWhileEntryZeroIsOffTheLine ==
  /\ Len(obs.log.hits) > 0
  /\ LET s == obs.log.hits[1].before
     IN  s.ppu.scanline - SpriteAt(s, 0).y < 0

\* C17: once set, the sprite-zero hit flag stays set, through reads of
\* $2002 too, until the dot at cycle 1 of scanline 261 clears it.
C17_HitStaysSetUntilPreRender ==
  \A k \in 1 .. Len(obs.log.clears) :
    obs.log.clears[k] = [scanline |-> 261, cycle |-> 1, by |-> "ppu"]

\* the flag was set during the frame and the dot at cycle 1 of scanline 241
\* has cleared it
C17_HitClearedWhenVBlankStarts ==
  \E k \in 1 .. Len(obs.log.clears) :
    /\ obs.log.clears[k].scanline = 241
    /\ Len(obs.log.hits) > 0
----------------------------------------------------------------------------
(* C18: the controller port.                                               *)

ControllerRead == obs.op = "read" /\ obs.addr \in {CONTROLLER_1, CONTROLLER_2}

ControllerOf(addr) == IF addr = CONTROLLER_1 THEN 0 ELSE 1

\* C18: after the writes 1 then 0 to $4016, the k-th read of a controller
\* returns in bit 0 the state of that controller's button k-1 for k = 1..8
\* (A, B, Select, Start, Up, Down, Left, Right) and 1 for every k > 8, each
\* controller counting its own reads; bit 6 of every controller read is set.
C18_ReadsShiftOutButtonsThenOnes ==
  ControllerRead /\ Running(sys) =>
    /\ (obs.ret \div 64) % 2 = 1
    /\ obs.pad.armed =>
         LET cid == ControllerOf(obs.addr)
             k == obs.pad.reads[cid]
         IN  obs.ret % 2 = IF k <= NUM_BUTTONS
                           THEN obs.before.input.buttons[cid][k - 1]
                           ELSE 1

\* a controller has been read for the ninth time since the strobe
C18_NinthReadAfterStrobe ==
  /\ ControllerRead /\ obs.pad.armed
  /\ obs.pad.reads[ControllerOf(obs.addr)] = NUM_BUTTONS + 1

----------------------------------------------------------------------------
(* C19: the result of loading a ROM.                                       *)

RomLoadReturned == obs.op = "load" /\ obs.file # << >> /\ obs.file[1].found

\* the errors the defects of a file call for: a header that is short or has
\* a wrong magic; otherwise fewer bytes than header + trainer + PRG + CHR,
\* and a mapper number that is not supported
Defects(f) ==
  LET need == NES_ROM_HEADER_SIZE
              + (IF (f.flags6 \div 4) % 2 = 1 THEN NES_TRAINER_SIZE ELSE 0)
              + f.prg_rom_size * NES_PRG_ROM_SIZE + f.chr_rom_size * NES_CHR_ROM_SIZE
      mapper == (f.flags7 \div 16) * 16 + (f.flags6 \div 16)
  IN  IF f.size < NES_ROM_HEADER_SIZE \/ f.magic # NES_MAGIC
      THEN {NES_ROM_ERROR_INVALID_HEADER}
      ELSE (IF f.size < need THEN {NES_ROM_ERROR_TRUNCATED} ELSE {})
           \cup (IF mapper \notin {0, 1, 2, 3, 4, 7}
                 THEN {NES_ROM_ERROR_UNSUPPORTED_MAPPER} ELSE {})

\* C19: loading fails with the error of a defect the file has (bad header
\* for a file shorter than 16 bytes or with a wrong magic, truncated for a
\* file smaller than header + trainer + PRG + CHR, unsupported mapper for a
\* mapper outside {0,1,2,3,4,7}), and a file with no defect loads.
C19_LoadFailsWithTheErrorOfItsCause ==
  RomLoadReturned =>
    IF Defects(obs.file[1]) = {}
    THEN Running(sys) => obs.val = NES_ROM_OK /\ obs.ret = 0
    ELSE obs.val \in Defects(obs.file[1]) /\ obs.ret # 0

\* a file shorter than a header has been refused
C19_ShortFileRefused ==
  RomLoadReturned /\ obs.file[1].size < NES_ROM_HEADER_SIZE /\ obs.ret # 0

----------------------------------------------------------------------------
(* C20: the mirrors of the palette.                                        *)

PaletteMirrors == {16144, 16148, 16152, 16156}    \* $3F10, $3F14, $3F18, $3F1C

\* the byte a read of $2007 returns with the VRAM address at addr
DataPortAt(addr) ==
  Call("nes_ppu_cpu_read", << [sys EXCEPT !.ppu.v = addr], 7 >>).val

\* C20: a PPU read of $3F10, $3F14, $3F18 or $3F1C returns what a PPU read
\* of the address with bit 4 cleared returns, in every state, whether read
\* by ppu_read_vram or through $2007.
C20_PaletteMirrorsReadAlike ==
  Running(sys) =>
    \A A \in PaletteMirrors :
      /\ Call("ppu_read_vram", << sys, A >>).val
           = Call("ppu_read_vram", << sys, A - 16 >>).val
      /\ DataPortAt(A) = DataPortAt(A - 16)

\* a byte has been written to the palette through a mirror address
C20_PaletteWrittenThroughMirror ==
  /\ obs.op = "write" /\ obs.addr = NES_ADDR_PPU_REG + 7
  /\ obs.before.ppu.v \in PaletteMirrors
  /\ At(sys.ppu.palette, obs.before.ppu.v % 16) = obs.val

----------------------------------------------------------------------------
(* C21: the shift register of the noise channel.                           *)

\* C21: the noise channel's shift register is 1 after a reset and is never
\* 0, whatever APU steps and writes to $400E (mode bit, period) are made.
C21_NoiseLfsrNeverZero ==
  /\ sys.apu.noise.lfsr \in LfsrValues
  /\ obs.op = "reset" /\ Running(sys) => sys.apu.noise.lfsr = 1

\* a step has shifted the register in short mode, set by a write to $400E
C21_LfsrShiftedInShortMode ==
  /\ obs.op = "apu_step"
  /\ obs.before.apu.noise.mode = 1 /\ obs.before.apu.noise.timer_value = 0
  /\ sys.apu.noise.lfsr # obs.before.apu.noise.lfsr

----------------------------------------------------------------------------
(* C22: the audio accessor.                                                *)

\* what the accessor is to leave alone: the cycle counter, the position of
\* the frame sequencer, the timers, the length counters, the noise shift
\* register and the DMC
AudioCore(apu) ==
  << apu.cycle_count, apu.frame_cycle, apu.frame,
     apu.square1.timer_value, apu.square2.timer_value,
     apu.triangle.timer_value, apu.noise.timer_value,
     apu.square1.length_counter, apu.square2.length_counter,
     apu.triangle.length_counter, apu.noise.length_counter,
     apu.noise.lfsr, apu.dmc >>

\* C22: a call of nes_sys_get_audio, whenever it is made, leaves the APU's
\* cycle counter, frame sequencer, timers, length counters, shift register
\* and DMC as they were.
C22_AudioAccessorLeavesApuAlone ==
  obs.op = "audio" => AudioCore(sys.apu) = AudioCore(obs.before.apu)

\* audio has been fetched between two turns of the frame loop and the APU's
\* cycle counter has moved
C22_AudioFetchedInsideFrame ==
  /\ obs.op = "audio" /\ obs.val > 0
  /\ frame.active /\ frame.i > 0
  /\ sys.apu.cycle_count # obs.before.apu.cycle_count

----------------------------------------------------------------------------
(* C23: NROM.                                                              *)

\* the size the mapper takes its remainder by
NromMirrorSize(s) == s.cartridge.prg_rom_size

----------------------------------------------------------------------------
(* C24: the IRQ latch.                                                     *)

\* the byte the stack holds n bytes below the stack pointer the CPU had
\* before the host's last call
Pushed(n) == At(sys.ram, NES_STACK_BASE + U8(obs.before.cpu.sp + 256 - n))

\* the host's last call was a nes_cpu_step of a CPU with no stall cycle left
\* and the IRQ latch set
SteppedWithIrqLatched ==
  /\ obs.op = "step" /\ Running(sys)
  /\ obs.before.cpu.stall_cycles = 0
  /\ obs.before.cpu.pending_irq = 1

\* C24: nes_cpu_step services a latched IRQ exactly when I is clear and no
\* NMI is latched.  While I is set the latch stays set; with both latches set
\* the NMI is entered and the IRQ latch stays set.  The service pushes PC,
\* high byte first, then P with B clear and U set, sets I, loads PC from
\* $FFFE/$FFFF, takes 7 cycles and clears the latch.
C24_IrqServicedWhenUnmaskedAndNoNmi ==
  SteppedWithIrqLatched =>
    LET b == obs.before.cpu
        masked == Test(b.p, FLAG_INTERRUPT)
    IN  /\ (masked \/ b.pending_nmi = 1) => sys.cpu.pending_irq = 1
        /\ b.pending_nmi = 1 =>
             /\ sys.cpu.pending_nmi = 0
             /\ sys.cpu.pc = Call("read16", << obs.before, NES_VECTOR_NMI >>).val
        /\ (~masked /\ b.pending_nmi = 0) =>
             /\ sys.cpu.pending_irq = 0
             /\ Pushed(0) = b.pc \div 256
             /\ Pushed(1) = b.pc % 256
             /\ Pushed(2) = Or(And(b.p, Not8(FLAG_BREAK)), FLAG_UNUSED)
             /\ sys.cpu.sp = U8(b.sp + 253)
             /\ sys.cpu.p = Or(b.p, FLAG_INTERRUPT)
             /\ sys.cpu.pc = Call("read16", << obs.before, NES_VECTOR_IRQ_BRK >>).val
             /\ obs.ret = 7
             /\ sys.cpu.cycle_count = U32(b.cycle_count + 7)

\* an IRQ latched while I was clear and no NMI was latched has been entered
\* from the program in ROM
C24_IrqEnteredFromRom ==
  /\ SteppedWithIrqLatched
  /\ ~Test(obs.before.cpu.p, FLAG_INTERRUPT) /\ obs.before.cpu.pending_nmi = 0
  /\ obs.before.cpu.pc >= 32768
  /\ sys.cpu.pending_irq = 0
  /\ sys.cpu.pc = 32784

----------------------------------------------------------------------------
(* C25, C26: the APU and the frame driver.                                 *)

\* nes_sys_step_frame has run a frame and returned
FrameReturned == ~frame.active /\ obs.op = "step_frame" /\ obs.ret = 1

\* during the frame that has returned the 4-step sequencer reached its last
\* step, where the cycle counter of the APU starts again from 0, and the
\* frame interrupt was not inhibited
ApuFrameIrqAsserted ==
  /\ FrameReturned
  /\ sys.apu.frame.mode = 0 /\ sys.apu.frame.irq = 1
  /\ sys.apu.cycle_count
       # U32(obs.before.apu.cycle_count + NES_CPU_CYCLES_PER_FRAME)

\* C25: when the 4-step frame counter of the APU has reached step 3 with the
\* interrupt not inhibited, the frame driver has set the IRQ latch of the CPU
\* by the time it returns.
C25_FrameIrqLatchedInCpu == ApuFrameIrqAsserted => sys.cpu.pending_irq = 1

\* the frame counter has reached step 3 with the interrupt enabled while the
\* CPU ran with I clear
C25_FrameIrqAssertedWithIClear ==
  /\ ApuFrameIrqAsserted
  /\ ~Test(sys.cpu.p, FLAG_INTERRUPT)
  /\ sys.cpu.pc = 32774

\* C26: over the turns of the frame loop, each of which ends between two
\* instructions, the APU is stepped as many times as the CPU has consumed
\* cycles.
C26_ApuSteppedWithCpu ==
  [][(Running(sys) /\ Running(sys') /\ frame.active /\ frame'.active) =>
       sys'.apu.cycle_count =
         Call("nes_apu_execute_cycles",
              << sys.apu, sys'.cpu.cycle_count - sys.cpu.cycle_count >>).cycle_count]_vars

\* the CPU has executed instructions in the frame loop while the cycle counter
\* of the APU stood still
C26_CpuRanWhileApuStood ==
  /\ Running(sys) /\ frame.active /\ frame.i > 0
  /\ obs.log.fetches > 0
  /\ sys.cpu.cycle_count > obs.before.cpu.cycle_count
  /\ sys.apu.cycle_count = obs.before.apu.cycle_count

----------------------------------------------------------------------------
(* C27, C28: subroutines and branches.                                     *)

\* the opcode the host's last call of nes_cpu_step fetched
FetchedOpcode == bus_read(obs.before, obs.before.cpu.pc).val

\* that call fetched and executed the instruction whose opcode is in ops
Ran(ops) ==
  /\ obs.op = "step" /\ Running(sys) /\ obs.log.fetches = 1
  /\ FetchedOpcode \in ops

\* the operand byte n of that instruction
OperandByte(n) == bus_read(obs.before, U16(obs.before.cpu.pc + n)).val

\* C27: JSR at a with operand T pushes the high and then the low byte of
\* a + 2 and leaves PC = T; RTS pulls a word and leaves PC one past it, so
\* that it returns to a + 3 with SP as it was before the JSR.
C27_JsrPushesAndRtsReturns ==
  /\ Ran({32}) =>
       LET a == obs.before.cpu.pc
           T == OperandByte(1) + 256 * OperandByte(2)
       IN  /\ Pushed(0) = U16(a + 2) \div 256
           /\ Pushed(1) = U16(a + 2) % 256
           /\ sys.cpu.sp = U8(obs.before.cpu.sp + 254)
           /\ sys.cpu.pc = T
  /\ Ran({96}) =>
       LET sp == obs.before.cpu.sp
           lo == At(obs.before.ram, NES_STACK_BASE + U8(sp + 1))
           hi == At(obs.before.ram, NES_STACK_BASE + U8(sp + 2))
       IN  /\ sys.cpu.pc = U16(lo + 256 * hi + 1)
           /\ sys.cpu.sp = U8(sp + 2)

\* RTS has returned to the byte after a JSR, with SP back at its value
C27_ReturnedAfterJsr ==
  /\ Ran({96}) /\ obs.calls = 2
  /\ sys.cpu.pc - 3 \in FlowBases
  /\ At(sys.ram, sys.cpu.pc - 3) = 32
  /\ sys.cpu.sp = obs.saved.cpu.sp

\* whether the branch opcode finds its condition in the status p
BranchTaken(opcode, p) ==
  LET flag == CASE opcode \in {16, 48} -> FLAG_NEGATIVE
                [] opcode \in {80, 112} -> FLAG_OVERFLOW
                [] opcode \in {144, 176} -> FLAG_CARRY
                [] OTHER -> FLAG_ZERO
  IN  Test(p, flag) = (opcode \in {48, 112, 176, 240})

\* C28: a branch takes 2 cycles when it is not taken, 3 when it is taken to
\* the page of the next instruction and 4 when it is taken to another page;
\* its target is the address of the next instruction plus the operand taken
\* as a signed byte.
C28_BranchCycles ==
  Ran(BranchOpcodes) =>
    LET next == U16(obs.before.cpu.pc + 2)
        target == U16(next + Int8(OperandByte(1)) + 65536)
        taken == BranchTaken(FetchedOpcode, obs.before.cpu.p)
    IN  /\ sys.cpu.pc = IF taken THEN target ELSE next
        /\ obs.ret = IF ~taken THEN 2
                     ELSE IF target \div 256 = next \div 256 THEN 3 ELSE 4

\* a branch has been taken backwards into the page before the one of the
\* next instruction
C28_BranchTakenAcrossPage ==
  /\ Ran(BranchOpcodes)
  /\ BranchTaken(FetchedOpcode, obs.before.cpu.p)
  /\ OperandByte(1) >= 128
  /\ sys.cpu.pc \div 256 < U16(obs.before.cpu.pc + 2) \div 256

----------------------------------------------------------------------------
(* C29, C30: the address and scroll ports.                                 *)

\* the host's last call wrote register reg of the PPU with the write toggle
\* at w
PortWritten(reg, w) ==
  /\ Running(sys) /\ WriteAt(NES_ADDR_PPU_REG + reg, NES_ADDR_PPU_REG + reg)
  /\ obs.before.ppu.w = w

\* C29: the first write of a pair to $2006 puts its low 6 bits in bits 8-13
\* of t, clears bit 14, sets w and leaves v alone; the second puts its byte
\* in the low byte of t, clears w and copies t to v, whatever v had become.
C29_AddrPairLoadsTThenV ==
  /\ PortWritten(6, 0) =>
       /\ sys.ppu.t = (obs.val % 64) * 256 + (obs.before.ppu.t % 256)
                        + (obs.before.ppu.t \div 32768) * 32768
       /\ sys.ppu.w = 1
       /\ sys.ppu.v = obs.before.ppu.v
  /\ PortWritten(6, 1) =>
       /\ sys.ppu.t = (obs.before.ppu.t \div 256) * 256 + obs.val
       /\ sys.ppu.w = 0
       /\ sys.ppu.v = sys.ppu.t

\* the second write of a pair has been made after a read of the data port
\* had moved v away from t
C29_SecondWriteAfterVMoved ==
  /\ PortWritten(6, 1)
  /\ obs.before.ppu.v # obs.before.ppu.t
  /\ obs.before.ppu.t >= 256

CoarseX(t) == t % 32

CoarseY(t) == (t \div 32) % 32

FineY(t) == (t \div 4096) % 8

\* bits 10-11 of t
NametableSelect(t) == (t \div 1024) % 4

\* C30: the first write d1 of a pair to $2005 sets fine X to d1 & 7 and
\* coarse X to d1 >> 3 and sets w; the second write d2 sets fine Y to d2 & 7
\* and coarse Y to d2 >> 3, clears w and leaves coarse X and bits 10-11 of t
\* as they were.
C30_ScrollPairSetsXThenY ==
  /\ PortWritten(5, 0) =>
       /\ sys.ppu.x = obs.val % 8
       /\ CoarseX(sys.ppu.t) = obs.val \div 8
       /\ sys.ppu.w = 1
  /\ PortWritten(5, 1) =>
       /\ FineY(sys.ppu.t) = obs.val % 8
       /\ CoarseY(sys.ppu.t) = obs.val \div 8
       /\ sys.ppu.w = 0
       /\ CoarseX(sys.ppu.t) = CoarseX(obs.before.ppu.t)
       /\ NametableSelect(sys.ppu.t) = NametableSelect(obs.before.ppu.t)

\* the second write of a pair has been made with a coarse and a fine part,
\* t holding a coarse X and both of its bits 10 and 11
C30_SecondWriteOverCoarseX ==
  /\ PortWritten(5, 1)
  /\ obs.val % 8 # 0 /\ obs.val \div 8 # 0
  /\ CoarseX(obs.before.ppu.t) # 0
  /\ NametableSelect(obs.before.ppu.t) = 3

----------------------------------------------------------------------------
(* C31, C32, C33: VRAM through the data port.                              *)

\* the host's last call accessed $2007 with the VRAM address in lo..hi
DataPortUsed(op, lo, hi) ==
  /\ Running(sys) /\ obs.op = op /\ obs.addr = NES_ADDR_PPU_REG + 7
  /\ (obs.before.ppu.v % 16384) \in lo..hi

\* the machine after the two writes to $2006 that set the VRAM address to A
AddressSet(s, A) ==
  Call("nes_ppu_cpu_write",
       << Call("nes_ppu_cpu_write", << [s EXCEPT !.ppu.w = 0], 6, A \div 256 >>),
          6, A % 256 >>)

\* C31: after a write of d to a nametable address A through $2007, setting
\* the address to A again and reading $2007 twice returns the old read buffer
\* and then d; every access to $2007 adds 1 or, with CTRL.INC32, 32 to v.
C31_NametableRoundTrip ==
  /\ DataPortUsed("write", 8192, 16127) =>
       LET A == obs.before.ppu.v % 16384
           s1 == AddressSet(sys, A)
           r1 == Call("nes_ppu_cpu_read", << s1, 7 >>)
           r2 == Call("nes_ppu_cpu_read", << r1.sys, 7 >>)
       IN  /\ s1.ppu.v = A
           /\ r1.val = sys.ppu.data_buffer
           /\ r2.val = obs.val
  /\ (DataPortUsed("write", 0, 16383) \/ DataPortUsed("read", 0, 16383)) =>
       sys.ppu.v = (obs.before.ppu.v
                      + IF Test(obs.before.ppu.ctrl, PPUCTRL_INC32) THEN 32 ELSE 1)
                   % 32768

\* a byte has been written to a nametable cell and stands in the PPU's VRAM
C31_NametableCellWritten ==
  /\ DataPortUsed("write", 8192, 16127)
  /\ At(sys.ppu.vram,
        (read_name_table_addr(sys, obs.before.ppu.v % 16384) - 8192) % 4096)
       = obs.val
  /\ Test(obs.before.ppu.ctrl, PPUCTRL_INC32)

\* C32: after a write of d to a palette address A through $2007, a read of
\* $2007 with v at A or at any 32-byte mirror of A returns d & $3F at once.
C32_PaletteRoundTrip ==
  DataPortUsed("write", 16128, 16383) =>
    \A k \in 0..7 :
      DataPortAt(16128 + 32 * k + (obs.before.ppu.v % 32)) = obs.val % 64

\* a byte with bits 6 and 7 set has been written to a palette cell
C32_PaletteCellWritten ==
  /\ DataPortUsed("write", 16128, 16383)
  /\ obs.val >= 192
  /\ At(sys.ppu.palette, PaletteIndex(obs.before.ppu.v)) = obs.val % 64

\* the cell of the PPU's nametable memory that a VRAM address stands for
NametableCell(s, addr) == (read_name_table_addr(s, addr) - 8192) % 4096

\* addresses $2000 + k and $2000 + l stand for the same cell
SameCell(s, k, l) == NametableCell(s, 8192 + k) = NametableCell(s, 8192 + l)

\* C33: on a cartridge with vertical mirroring $2000 and $2800 are one cell,
\* $2400 and $2C00 are one cell and $2000 and $2400 are two; with horizontal
\* mirroring $2000 and $2400 are one cell, $2800 and $2C00 are one cell and
\* $2000 and $2800 are two; the cell's offset is below $800 in both.
C33_MirroringFollowsCartridge ==
  Running(sys) =>
    \A k \in {0, 37, 1023} :
      /\ sys.cartridge.image.flags6_mirror = 1 =>
           /\ SameCell(sys, k, 2048 + k) /\ SameCell(sys, 1024 + k, 3072 + k)
           /\ ~SameCell(sys, k, 1024 + k)
      /\ sys.cartridge.image.flags6_mirror = 0 =>
           /\ SameCell(sys, k, 1024 + k) /\ SameCell(sys, 2048 + k, 3072 + k)
           /\ ~SameCell(sys, k, 2048 + k)
      /\ \A n \in 0..3 : NametableCell(sys, 8192 + 1024 * n + k) < 2048

\* on a cartridge with vertical mirroring a byte has been written at $2800
\* and has landed in the second kilobyte of the nametable memory
C33_WrittenToThirdNametable ==
  /\ DataPortUsed("write", 10240, 10240)
  /\ sys.cartridge.image.flags6_mirror = 1
  /\ At(sys.ppu.vram, 1024) = obs.val

----------------------------------------------------------------------------
(* C34: the bank registers of MMC3.                                        *)

\* C34: a write of s to an even address in $8000-$9FFF selects slot s & 7 and
\* sets the PRG mode from bit 6 and the CHR mode from bit 7; a write of b to
\* an odd address in $8000-$9FFF stores b in the selected slot; a write in
\* $A000-$BFFF changes no slot.
C34_Mmc3BankSelectAndData ==
  LET m == sys.mmc3
      b == obs.before.mmc3
  IN  /\ (Running(sys) /\ WriteAt(32768, 40959) /\ obs.addr % 2 = 0) =>
           /\ m.bank_select % 8 = obs.val % 8
           /\ m.prg_mode = (obs.val \div 64) % 2
           /\ m.chr_mode = (obs.val \div 128) % 2
      /\ (Running(sys) /\ WriteAt(32768, 40959) /\ obs.addr % 2 = 1) =>
           m.registers = [b.registers EXCEPT ![b.bank_select % 8] = obs.val]
      /\ (Running(sys) /\ WriteAt(40960, 49151)) => m.registers = b.registers

\* a byte has been written to an odd address in $8000-$9FFF after a slot
\* other than 0 had been selected
C34_BankDataWritten ==
  /\ Running(sys) /\ WriteAt(32768, 40959) /\ obs.addr % 2 = 1
  /\ obs.before.mmc3.bank_select % 8 # 0
  /\ obs.val # obs.before.mmc3.registers[obs.before.mmc3.bank_select % 8]

----------------------------------------------------------------------------
(* C35: the 4-step sequence of the frame counter.                          *)

\* nes_apu_step has run at step n (0..3) of the 4-step sequence
FrameStepRan(n) ==
  /\ Running(sys) /\ obs.op = "apu_step"
  /\ obs.before.apu.frame.mode = 0
  /\ obs.before.apu.cycle_count = SeqSteps[n + 1]

\* C35: in 4-step mode the envelopes and the linear counter of the triangle
\* are clocked at each of the steps 0, 1, 2 and 3, and the length counters
\* and the sweep units of the pulses at steps 1 and 3 and at no other step.
C35_FourStepSequenceClocks ==
  LET a == sys.apu
      b == obs.before.apu
      dec(n) == IF n > 0 THEN n - 1 ELSE 0
      quarter == /\ a.square1.envelope = envelope_clock(b.square1.envelope)
                 /\ a.square2.envelope = envelope_clock(b.square2.envelope)
                 /\ a.noise.envelope = envelope_clock(b.noise.envelope)
                 /\ a.triangle.linear_counter
                      = triangle_clock_linear(b.triangle).linear_counter
      half == /\ a.square1.length_counter = dec(b.square1.length_counter)
              /\ a.square2.length_counter = dec(b.square2.length_counter)
              /\ a.noise.length_counter = dec(b.noise.length_counter)
              /\ a.triangle.length_counter = dec(b.triangle.length_counter)
              /\ a.square1.sweep.reload = 0
              /\ a.square2.sweep.reload = 0
      still == /\ a.square1.length_counter = b.square1.length_counter
               /\ a.square1.sweep = b.square1.sweep
  IN  /\ \A n \in 0..3 : FrameStepRan(n) => quarter
      /\ \A n \in {1, 3} : FrameStepRan(n) => half
      /\ \A n \in {0, 2} : FrameStepRan(n) => still

\* step 1 has run while the envelope of pulse 1 was decaying
C35_SecondStepWithEnvelopeRunning ==
  /\ FrameStepRan(1)
  /\ obs.before.apu.square1.envelope.decay_level = 15
  /\ obs.before.apu.square1.length_counter > 0

----------------------------------------------------------------------------
(* C36: the sprite DMA reads its page through the CPU bus.                 *)

\* C36: after a write of p to $4014, OAM[(OAMADDR + i) & 0xFF] holds for
\* every i in 0..255 the byte that a CPU bus read of (p << 8) + i returns,
\* every index taken of the RAM array is below its 2048 bytes, and OAMADDR
\* is what it was.
C36_DmaCopiesWhatTheBusReads ==
  (Running(sys) /\ WriteAt(16404, 16404)) =>
    /\ \A i \in 0..255 :
         /\ At(sys.ppu.oam, (sys.ppu.oam_addr + i) % 256)
              = bus_read(sys, obs.val * 256 + i).val
         /\ page_index(obs.val, i) < NES_RAM_SIZE
    /\ sys.ppu.oam_addr = obs.before.ppu.oam_addr

\* a page of the first mirror of RAM has been copied while the first page
\* of RAM held a byte other than 0
C36_MirrorPageCopied ==
  /\ Running(sys) /\ WriteAt(16404, 16404) /\ obs.val = 8
  /\ At(sys.ram, 0) # 0

----------------------------------------------------------------------------
(* C37: the VRAM address while rendering is off.                           *)

\* nes_ppu_step has run with both show bits of PPUMASK clear
SteppedWithRenderingOff ==
  /\ Running(sys) /\ obs.op = "ppu_step"
  /\ ~Test(obs.before.ppu.mask, PPUMASK_SHOW_BGR)
  /\ ~Test(obs.before.ppu.mask, PPUMASK_SHOW_SPR)

\* C37: while rendering is disabled no nes_ppu_step changes v.
C37_IdlePpuKeepsV ==
  SteppedWithRenderingOff => sys.ppu.v = obs.before.ppu.v

\* a dot of a visible line has run with rendering off and the address $2108
\* set through $2006
C37_SteppedAfterAddressSet ==
  /\ SteppedWithRenderingOff
  /\ obs.before.ppu.scanline = 0
  /\ obs.before.ppu.t = 8456 /\ obs.before.ppu.w = 0

----------------------------------------------------------------------------
(* C38: MMC1 and the writes below its register window.                     *)

\* the shift register, its count and the four internal registers of MMC1
Mmc1Serial(s) ==
  << s.ctx.shift_reg, s.ctx.shift_count, s.ctx.control, s.ctx.chr_bank_0,
     s.ctx.chr_bank_1, s.ctx.prg_bank >>

\* C38: on an MMC1 cartridge a CPU write to an address below $8000 leaves
\* the shift register, the shift count and the four internal registers as
\* they were.
C38_WritesBelowWindowLeaveMmc1 ==
  (Running(sys) /\ sys.mapper.number = 1 /\ WriteAt(0, 32767)) =>
    Mmc1Serial(sys) = Mmc1Serial(obs.before)

\* a byte without bit 7 has been written to PRG-RAM while a serial load was
\* under way
C38_PrgRamWrittenDuringLoad ==
  /\ Running(sys) /\ sys.mapper.number = 1 /\ WriteAt(24576, 32767)
  /\ obs.val < 128
  /\ obs.before.ctx.shift_count = 1

----------------------------------------------------------------------------
(* C39: the DMC plays its sample to the end.                               *)

\* the channel is enabled with a sample to play and the loop flag clear
DmcStarted(s) ==
  /\ s.apu.dmc.enabled = 1 /\ s.apu.dmc.sample_length # 0
  /\ s.apu.dmc.loop = 0

\* no byte of the sample remains and bit 4 of $4015 reads 0
DmcFinished(s) ==
  /\ s.apu.dmc.bytes_remaining = 0
  /\ ~Test(nes_apu_cpu_read(s.apu, 16405), 16)

\* the output unit is silent in the middle of an output cycle
DmcSilent(s) == s.apu.dmc.silence # 0 /\ s.apu.dmc.bits_remaining # 0

\* C39: once the DMC has been started, the stepping of the APU fetches every
\* byte of the sample: a run whose writes are all among its first
\* MaxDmcLead calls has no byte left after DmcPlayTime more calls.
C39_DmcPlaysToTheEnd ==
  (Running(sys) /\ DmcStarted(sys) /\ obs.calls >= MaxDmcLead + DmcPlayTime)
    => DmcFinished(sys)

\* the started channel is silent with bytes of the sample remaining
C39_SilentWithBytesRemaining ==
  /\ Running(sys) /\ obs.op = "apu_step"
  /\ DmcStarted(sys) /\ DmcSilent(sys)
  /\ sys.apu.dmc.bytes_remaining > 0

\* a step of the APU leaves a silent channel silent, with the bytes that
\* remained
DmcSilenceIsKept ==
  [][(Running(sys) /\ DmcSilent(sys) /\ obs'.op = "apu_step")
       => (DmcSilent(sys') /\ sys'.apu.dmc.bytes_remaining
                                = sys.apu.dmc.bytes_remaining)]_vars

----------------------------------------------------------------------------
(* C40: the buffers of the cartridge are released once.                    *)

\* the process has ended in nes_sys_free, or in the free() that stopped it
TornDown(s) == s.host \in {"exited", "aborted"}

\* C40: no buffer allocated by parse_header is freed more than once, and
\* when the process has gone through nes_cartridge_free each one has been
\* freed exactly once.
C40_BuffersFreedOnce ==
  \A b \in sys.heap.allocated :
    /\ sys.heap.frees[b] <= 1
    /\ TornDown(sys) => sys.heap.frees[b] = 1

\* nes_sys_free has run at shutdown on a cartridge that was loaded
C40_LoadedCartridgeFreed ==
  /\ obs.op = "free" /\ TornDown(sys)
  /\ sys.heap.allocated = {"prg", "chr"}

====
